---- MODULE Spec2Model ----
(***************************************************************************)
(* Speaker lead store: the CSV import pipeline (header normalizer, field   *)
(* mapper, record coercer, deduplicator), the bulk insert transaction, the *)
(* single add / edit flow and the duplicate-email check.                   *)
(*                                                                         *)
(* Strings are sequences of one-character strings, so that toLowerCase,    *)
(* trim and the whitespace regex are computed and not assumed.             *)
(***************************************************************************)
EXTENDS Integers, Sequences, FiniteSets, TLC

VARIABLES speakers, users, imp, del, cl, observed, pure, ops, pwReq, exportReq, panel, app

vars == <<speakers, users, imp, del, cl, observed, pure, ops, pwReq, exportReq, panel, app>>

(***************************************************************************)
(* Bounds of the model.                                                    *)
(***************************************************************************)
\* longest batch (number of rows or records) one import submits
MaxBatch == 3
\* rows per INSERT statement; the code uses 200, scaled down so that a
\* batch of MaxBatch records needs more than one chunk
batchSize == 2
\* size of the space the generated ids are drawn from
MaxId == 4
\* number of requests started in one behaviour of the concurrent system
MaxOps == 2
\* number of requests run one after the other in the sequential system
MaxSeqOps == 3
\* longest header the normalizer is called with
MaxHeader == 3
\* largest number of cells of a row the field mapper is called with
MaxCells == 3
\* number of requests run one after the other on accounts and their records
MaxUserOps == 4
\* rows of one cursor.read (100 in the source)
readSize == 2
\* export requests in one behaviour
MaxExports == 2

(***************************************************************************)
(* JavaScript values.                                                      *)
(***************************************************************************)
Undefined == <<"undefined">>
Null == <<"NULL">>

Upper == <<"A","B","C","D","E","F","G","H","I","J","K","L","M","N","O","P","Q","R","S","T","U","V","W","X","Y","Z">>
Lower == <<"a","b","c","d","e","f","g","h","i","j","k","l","m","n","o","p","q","r","s","t","u","v","w","x","y","z">>

LowerChar(c) ==
    IF \E i \in 1..26 : Upper[i] = c
    THEN Lower[CHOOSE i \in 1..26 : Upper[i] = c]
    ELSE c

\* String.prototype.toLowerCase
toLowerCase(s) == [i \in 1..Len(s) |-> LowerChar(s[i])]

\* two characters whose upper case does not lower back to them: U+00DF
\* (sharp s, upper case "SS") and U+0131 (dotless i, upper case "I")
SharpS == "U+00DF"
DotlessI == "U+0131"

\* String.prototype.toUpperCase: one character may become two
RECURSIVE toUpperCase(_)
toUpperCase(s) ==
    IF s = <<>> THEN <<>>
    ELSE LET c == Head(s)
         IN  (IF \E i \in 1..26 : Lower[i] = c
              THEN <<Upper[CHOOSE i \in 1..26 : Lower[i] = c]>>
              ELSE IF c = SharpS THEN <<"S", "S">>
              ELSE IF c = DotlessI THEN <<"I">>
              ELSE <<c>>)
             \o toUpperCase(Tail(s))

\* the characters matched by \s
IsSpace(c) == c \in {" ", "\t", "\n", "\r"}

\* s.replace(/\s+/g, '')
RECURSIVE removeWhitespace(_)
removeWhitespace(s) ==
    IF s = <<>> THEN <<>>
    ELSE IF IsSpace(Head(s)) THEN removeWhitespace(Tail(s))
    ELSE <<Head(s)>> \o removeWhitespace(Tail(s))

RECURSIVE trimStart(_)
trimStart(s) ==
    IF s = <<>> THEN <<>>
    ELSE IF IsSpace(Head(s)) THEN trimStart(Tail(s))
    ELSE s

RECURSIVE trimEnd(_)
trimEnd(s) ==
    IF s = <<>> THEN <<>>
    ELSE IF IsSpace(s[Len(s)]) THEN trimEnd(SubSeq(s, 1, Len(s) - 1))
    ELSE s

\* String.prototype.trim
trim(s) == trimEnd(trimStart(s))

\* JavaScript truthiness of a string-or-missing value
Truthy(v) == v # Undefined /\ v # Null /\ v # <<>>

\* String(v)
String(v) == IF v = Undefined THEN <<"u","n","d","e","f","i","n","e","d">>
             ELSE IF v = Null THEN <<"n","u","l","l">>
             ELSE v

\* v || ''
OrEmpty(v) == IF Truthy(v) THEN v ELSE <<>>

(***************************************************************************)
(* Header normalizer and field mapper.                                     *)
(***************************************************************************)
\* the normalizer without toLowerCase
normalizeKeyNoLower(key) ==
    IF ~Truthy(key) THEN <<>>
    ELSE removeWhitespace(key)

normalizeKey(key) ==
    IF ~Truthy(key) THEN <<>>
    ELSE removeWhitespace(toLowerCase(key))

\* the alias table of getFieldMap, in source order
aliases == <<
      <<<<"f", "i", "r", "s", "t", "n", "a", "m", "e">>, "firstName">>,
      <<<<"l", "a", "s", "t", "n", "a", "m", "e">>, "lastName">>,
      <<<<"t", "i", "t", "l", "e">>, "title">>,
      <<<<"c", "o", "m", "p", "a", "n", "y">>, "company">>,
      <<<<"b", "u", "s", "i", "n", "e", "s", "s", "e", "m", "a", "i", "l">>, "businessEmail">>,
      <<<<"e", "m", "a", "i", "l">>, "businessEmail">>,
      <<<<"e", "m", "a", "i", "l", "a", "d", "d", "r", "e", "s", "s">>, "businessEmail">>,
      <<<<"w", "o", "r", "k", "e", "m", "a", "i", "l">>, "businessEmail">>,
      <<<<"c", "o", "u", "n", "t", "r", "y">>, "country">>,
      <<<<"w", "e", "b", "s", "i", "t", "e">>, "website">>,
      <<<<"f", "u", "l", "l", "n", "a", "m", "e">>, "fullName">>,
      <<<<"e", "m", "a", "i", "l", "v", "a", "l", "i", "d">>, "isEmailValid">>,
      <<<<"i", "s", "e", "m", "a", "i", "l", "v", "a", "l", "i", "d">>, "isEmailValid">>,
      <<<<"l", "i", "n", "k", "e", "d", "v", "a", "l", "i", "d">>, "isLinkedInValid">>,
      <<<<"i", "s", "l", "i", "n", "k", "e", "d", "i", "n", "v", "a", "l", "i", "d">>, "isLinkedInValid">>,
      <<<<"w", "e", "b", "s", "i", "t", "e", "v", "a", "l", "i", "d">>, "isWebsiteValid">>,
      <<<<"i", "s", "w", "e", "b", "s", "i", "t", "e", "v", "a", "l", "i", "d">>, "isWebsiteValid">>,
      <<<<"e", "x", "t", "r", "a", "c", "t", "e", "d", "r", "o", "l", "e">>, "extractedRole">>,
      <<<<"i", "s", "c", "e", "o">>, "isCeo">>,
      <<<<"i", "s", "s", "p", "e", "a", "k", "e", "r">>, "isSpeaker">>,
      <<<<"i", "s", "a", "u", "t", "h", "o", "r">>, "isAuthor">>,
      <<<<"i", "n", "d", "u", "s", "t", "r", "y">>, "industry">>,
      <<<<"p", "e", "r", "s", "o", "n", "l", "i", "n", "k", "e", "d", "i", "n", "u", "r", "l">>, "personLinkedinUrl">>,
      <<<<"l", "i", "n", "k", "e", "d", "i", "n">>, "personLinkedinUrl">>,
      <<<<"l", "i", "n", "k", "e", "d", "i", "n", "u", "r", "l">>, "personLinkedinUrl">>,
      <<<<"s", "t", "a", "g", "e">>, "stage">>,
      <<<<"p", "h", "o", "n", "e", "n", "u", "m", "b", "e", "r">>, "phoneNumber">>,
      <<<<"p", "h", "o", "n", "e">>, "phoneNumber">>,
      <<<<"e", "m", "p", "l", "o", "y", "e", "e", "s">>, "employees">>,
      <<<<"l", "o", "c", "a", "t", "i", "o", "n">>, "location">>,
      <<<<"c", "i", "t", "y">>, "city">>,
      <<<<"s", "t", "a", "t", "e">>, "state">>,
      <<<<"c", "o", "m", "p", "a", "n", "y", "a", "d", "d", "r", "e", "s", "s">>, "companyAddress">>,
      <<<<"c", "o", "m", "p", "a", "n", "y", "c", "i", "t", "y">>, "companyCity">>,
      <<<<"c", "o", "m", "p", "a", "n", "y", "s", "t", "a", "t", "e">>, "companyState">>,
      <<<<"c", "o", "m", "p", "a", "n", "y", "c", "o", "u", "n", "t", "r", "y">>, "companyCountry">>,
      <<<<"c", "o", "m", "p", "a", "n", "y", "p", "h", "o", "n", "e">>, "companyPhone">>,
      <<<<"s", "e", "c", "o", "n", "d", "a", "r", "y", "e", "m", "a", "i", "l">>, "secondaryEmail">>,
      <<<<"s", "p", "e", "a", "k", "i", "n", "g", "t", "o", "p", "i", "c">>, "speakingTopic">>,
      <<<<"s", "p", "e", "a", "k", "i", "n", "g", "i", "n", "f", "o", "t", "o", "p", "i", "c">>, "speakingTopic">>,
      <<<<"s", "p", "e", "a", "k", "i", "n", "g", "l", "i", "n", "k">>, "speakingLink">>,
      <<<<"s", "p", "e", "a", "k", "i", "n", "g", "i", "n", "f", "o", "l", "i", "n", "k">>, "speakingLink">>,
      <<<<"c", "r", "e", "a", "t", "e", "d", "b", "y">>, "createdBy">>,
      <<<<"i", "d">>, "id">>
    >>

\* getFieldMap: map[normalizeKey(alias)] = aliases[alias], built once
getFieldMap == [i \in 1..Len(aliases) |-> <<normalizeKey(aliases[i][1]), aliases[i][2]>>]

\* what a property read finds on Object.prototype when the map, created
\* as {}, has no own property of that name: the constructor function,
\* which as property key of newRow becomes its source text
inherited(n) ==
    IF n = <<"c", "o", "n", "s", "t", "r", "u", "c", "t", "o", "r">>
    THEN "function Object() { [native code] }"
    ELSE "undefined"

\* fieldMap[n]; a later alias with the same normalized key overwrites
fieldMap(n) ==
    LET hits == {i \in 1..Len(getFieldMap) : getFieldMap[i][1] = n}
    IN  IF hits = {} THEN inherited(n)
        ELSE getFieldMap[CHOOSE i \in hits : \A j \in hits : j <= i][2]

Get(row, key) == IF key \in DOMAIN row THEN row[key] ELSE Undefined

\* the for-in loop over one parsed row; a raw row is a sequence of
\* [h |-> header, v |-> value] in column order
RECURSIVE remapRow(_, _)
remapRow(originalRow, newRow) ==
    IF originalRow = <<>> THEN newRow
    ELSE LET cell == Head(originalRow)
             finalKey == fieldMap(normalizeKey(cell.h))
         IN  remapRow(Tail(originalRow),
                      IF finalKey # "undefined"
                      THEN (finalKey :> cell.v) @@ newRow
                      ELSE newRow)

remappedData(rows) == [i \in 1..Len(rows) |-> remapRow(rows[i], <<>>)]

(***************************************************************************)
(* Record coercer: the admission filter and the three ways createdBy is    *)
(* filled in.                                                              *)
(***************************************************************************)
\* the admission test without the trim
admittedUntrimmed(row) == Truthy(Get(row, "businessEmail"))

\* row.businessEmail && String(row.businessEmail).trim()
admitted(row) ==
    /\ Truthy(Get(row, "businessEmail"))
    /\ Truthy(trim(String(Get(row, "businessEmail"))))

\* the user panel's record with the admin panel's createdBy
coerceUserFromRow(row, currentUserEmail) ==
    [createdBy |-> IF Truthy(Get(row, "createdBy")) THEN Get(row, "createdBy")
                   ELSE currentUserEmail,
     firstName |-> OrEmpty(Get(row, "firstName")),
     businessEmail |-> Get(row, "businessEmail")]

coerceUser(row, currentUserEmail) ==
    [createdBy |-> currentUserEmail,
     firstName |-> OrEmpty(Get(row, "firstName")),
     businessEmail |-> Get(row, "businessEmail")]

coerceAdmin(row, currentUserEmail) ==
    [createdBy |-> IF Truthy(Get(row, "createdBy")) THEN Get(row, "createdBy")
                   ELSE currentUserEmail,
     firstName |-> OrEmpty(Get(row, "firstName")),
     businessEmail |-> Get(row, "businessEmail")]

coerceServer(row, createdBy) ==
    [createdBy |-> createdBy,
     firstName |-> OrEmpty(Get(row, "firstName")),
     businessEmail |-> Get(row, "businessEmail")]

\* getBool without toLowerCase
getBoolExact(row, key) ==
    LET v == Get(row, key)
    IN  String(IF v \in {Undefined, Null} THEN <<>> ELSE v)
           \in {<<"t", "r", "u", "e">>, <<"1">>, <<"y", "e", "s">>}

\* ['true', '1', 'yes'].includes(String(row[key] ?? '').toLowerCase())
getBool(row, key) ==
    LET v == Get(row, key)
    IN  toLowerCase(String(IF v \in {Undefined, Null} THEN <<>> ELSE v))
           \in {<<"t", "r", "u", "e">>, <<"1">>, <<"y", "e", "s">>}

\* the six boolean fields of the record pushed to dataToImport
flags(row) ==
    [isEmailValid |-> getBool(row, "isEmailValid"),
     isLinkedInValid |-> getBool(row, "isLinkedInValid"),
     isWebsiteValid |-> getBool(row, "isWebsiteValid"),
     isCeo |-> getBool(row, "isCeo"),
     isSpeaker |-> getBool(row, "isSpeaker"),
     isAuthor |-> getBool(row, "isAuthor")]

coerce(entry, row, who) ==
    IF entry = "admin" THEN coerceAdmin(row, who)
    ELSE IF entry = "user" THEN coerceUser(row, who)
    ELSE coerceServer(row, who)

\* the loop that fills dataToImport
RECURSIVE dataToImport(_, _, _)
dataToImport(entry, remapped, who) ==
    IF remapped = <<>> THEN <<>>
    ELSE (IF admitted(Head(remapped))
          THEN <<coerce(entry, Head(remapped), who)>>
          ELSE <<>>)
         \o dataToImport(entry, Tail(remapped), who)

(***************************************************************************)
(* Deduplicator.                                                           *)
(***************************************************************************)
\* the filter without toLowerCase
RECURSIVE uniqueSpeakersBulkExact(_, _)
uniqueSpeakersBulkExact(batch, seenEmails) ==
    IF batch = <<>> THEN <<>>
    ELSE LET s == Head(batch)
         IN  IF ~Truthy(s.businessEmail)
             THEN uniqueSpeakersBulkExact(Tail(batch), seenEmails)
             ELSE (IF s.businessEmail \in seenEmails THEN <<>> ELSE <<s>>)
                  \o uniqueSpeakersBulkExact(Tail(batch),
                                             seenEmails \cup {s.businessEmail})

\* the filter without the test for a falsy businessEmail
RECURSIVE uniqueSpeakersBulkAll(_, _)
uniqueSpeakersBulkAll(batch, seenEmails) ==
    IF batch = <<>> THEN <<>>
    ELSE LET s == Head(batch)
             lowerCaseEmail == toLowerCase(String(s.businessEmail))
             duplicate == lowerCaseEmail \in seenEmails
         IN  (IF duplicate THEN <<>> ELSE <<s>>)
             \o uniqueSpeakersBulkAll(Tail(batch), seenEmails \cup {lowerCaseEmail})

\* speakers.filter(...) of /speakers/bulk, with the set seenEmails
RECURSIVE uniqueSpeakersBulk(_, _)
uniqueSpeakersBulk(batch, seenEmails) ==
    IF batch = <<>> THEN <<>>
    ELSE LET s == Head(batch)
         IN  IF ~Truthy(s.businessEmail)
             THEN uniqueSpeakersBulk(Tail(batch), seenEmails)
             ELSE LET lowerCaseEmail == toLowerCase(s.businessEmail)
                      duplicate == lowerCaseEmail \in seenEmails
                  IN  (IF duplicate THEN <<>> ELSE <<s>>)
                      \o uniqueSpeakersBulk(Tail(batch),
                                            seenEmails \cup {lowerCaseEmail})

\* dataToImport.filter(...) of /speakers/upload-csv: no falsy test
RECURSIVE uniqueSpeakersCsv(_, _)
uniqueSpeakersCsv(batch, seenEmails) ==
    IF batch = <<>> THEN <<>>
    ELSE LET s == Head(batch)
             lowerCaseEmail == toLowerCase(s.businessEmail)
             duplicate == lowerCaseEmail \in seenEmails
         IN  (IF duplicate THEN <<>> ELSE <<s>>)
             \o uniqueSpeakersCsv(Tail(batch), seenEmails \cup {lowerCaseEmail})

(***************************************************************************)
(* The speakers table.  A row is [id, createdBy, firstName, businessEmail];*)
(* firstName stands for the descriptive columns, which the statements      *)
(* treat alike.                                                            *)
(***************************************************************************)
Imports == {1, 2}
Clients == {1, 2}
Ids == 1..MaxId
NoId == 0

\* pg sends undefined as NULL
toSql(v) == IF v = Undefined THEN Null ELSE v

\* "businessEmail" = $1 on a text column; the unique index that
\* ON CONFLICT ("businessEmail") names compares with the same operator
sqlEq(a, b) == a # Null /\ b # Null /\ a = b

emailConflict(table, email) == \E row \in table : sqlEq(row.businessEmail, email)

\* a table without a key on id
idConflictNone(table, id) == FALSE

idConflict(table, id) == \E row \in table : row.id = id

\* an id a request body may carry; no generated id equals it
GivenId == MaxId + 1

\* the id column filled from the body when the body has one
rowIdFromInput(s, newId) == IF "id" \in DOMAIN s THEN s.id ELSE newId

\* the first value of rowParams / values: the id generated in the handler
rowId(s, newId) == newId

\* ON CONFLICT ("businessEmail") DO UPDATE SET ... = EXCLUDED. ...
onConflictUpdate(existing, proposed) ==
    [rows |-> {[proposed EXCEPT !.id = existing.id]}, gone |-> {existing},
     rowCount |-> 1]

\* ON CONFLICT ("businessEmail") DO NOTHING: what the statement does with
\* a proposed row whose email is already taken by the row existing
onConflict(existing, proposed) == [rows |-> {}, gone |-> {}, rowCount |-> 0]

inTx(r) == imp[r].pc \in {"chunk", "commit", "catch"}

\* a statement that does not wait for the rows of open transactions
othersPendingNone(r) == {}

\* rows written by the open transactions of the other connections
othersPending(r) == UNION {imp[q].rows : q \in {q \in Imports : q # r /\ inTx(q)}}

allPending == UNION {imp[q].rows : q \in {q \in Imports : inTx(q)}}

\* one multi-row INSERT ... VALUES ... ON CONFLICT DO NOTHING RETURNING id,
\* row by row; table is what the statement sees (committed rows and the
\* rows of its own transaction), others the uncommitted rows it waits for
RECURSIVE insertRows(_, _, _, _, _, _)
insertRows(table, others, batch, ids, k, st) ==
    IF k > Len(batch) \/ st.err \/ st.blocked THEN st
    ELSE LET s == batch[k]
             row == [id |-> rowId(s, ids[k]),
                     createdBy |-> toSql(s.createdBy),
                     firstName |-> toSql(s.firstName),
                     businessEmail |-> toSql(s.businessEmail)]
             visible == (table \ st.gone) \cup st.rows
         IN  IF emailConflict(visible, row.businessEmail)
             THEN LET existing == CHOOSE e \in visible :
                                      sqlEq(e.businessEmail, row.businessEmail)
                      oc == onConflict(existing, row)
                  IN  insertRows(table, others, batch, ids, k + 1,
                         [st EXCEPT !.rows = (@ \ oc.gone) \cup oc.rows,
                                    !.gone = @ \cup (oc.gone \cap table),
                                    !.rowCount = @ + oc.rowCount])
             ELSE IF emailConflict(others, row.businessEmail)
             THEN [st EXCEPT !.blocked = TRUE]
             ELSE IF idConflict(visible, row.id)
             THEN [st EXCEPT !.err = TRUE]
             ELSE IF idConflict(others, row.id)
             THEN [st EXCEPT !.blocked = TRUE]
             ELSE insertRows(table, others, batch, ids, k + 1,
                     [st EXCEPT !.rows = @ \cup {row}, !.rowCount = @ + 1])

\* a slice that ignores its start index: the first j - i elements
sliceFirst(seq, i, j) == SubSeq(seq, 1, IF j - i < Len(seq) THEN j - i ELSE Len(seq))

\* uniqueSpeakers.slice(i, i + batchSize)
slice(seq, i, j) == SubSeq(seq, i + 1, IF j < Len(seq) THEN j ELSE Len(seq))

(***************************************************************************)
(* Responses and the state of one import request.                          *)
(***************************************************************************)
\* headers is the list of headers a message names, empty when it names none
NoResp ==
    [kind |-> "none", status |-> 0, importedCount |-> 0, skippedCount |-> 0,
     headers |-> <<>>]

errorResp(kind, status) ==
    [kind |-> kind, status |-> status, importedCount |-> 0, skippedCount |-> 0,
     headers |-> <<>>]

countsResp(imported, skipped) ==
    [kind |-> "counts", status |-> 200, importedCount |-> imported,
     skippedCount |-> skipped, headers |-> <<>>]

IdleImp ==
    [pc |-> "idle", entry |-> "none", who |-> <<>>, raw |-> <<>>, errors |-> FALSE,
     body |-> <<>>,
     unique |-> <<>>, i |-> 0, chunks |-> <<>>, count |-> 0, rows |-> {},
     gone |-> {}, resp |-> NoResp, responses |-> 0, released |-> 0, failure |-> "none",
     before |-> {}, during |-> {},
     prev |-> [entry |-> "none", body |-> <<>>, resp |-> NoResp]]

IdleClient ==
    [pc |-> "idle", form |-> [firstName |-> <<>>, businessEmail |-> <<>>],
     editing |-> NoId, isDuplicate |-> FALSE, result |-> "none"]

\* the state of one DELETE /users/:email request: the rows its transaction
\* has deleted and not yet committed, and, as history, the two tables when
\* the request arrived
IdleDel ==
    [pc |-> "idle", email |-> <<>>, goneSpeakers |-> {}, goneUsers |-> {},
     status |-> 0, responses |-> 0, released |-> 0, failure |-> "none",
     beforeSpeakers |-> {}, beforeUsers |-> {}]

\* the state of one PUT /users/change-password request, with the accounts
\* table when it arrived as history
IdlePw ==
    [pc |-> "idle", email |-> <<>>, currentPassword |-> <<>>, newPassword |-> <<>>,
     status |-> 0, failure |-> "none", before |-> {}]

\* the state of one CSV export request: route is "interns", "speakers" or
\* "user", left the rows the cursor has still to hand over (-1 before its
\* first read, which runs the query), ended and released count the calls
\* that end the response and client.release(); n numbers the requests
IdleExport ==
    [pc |-> "idle", n |-> 0, route |-> "none", email |-> <<>>, left |-> -1,
     headersSent |-> FALSE, isFirstBatch |-> TRUE, written |-> 0, status |-> 0,
     ended |-> 0, released |-> 0]

\* what a handler of the user panel has reported last
NoReport == [kind |-> "none", importedCount |-> 0, skippedCount |-> 0]

\* one file import of the user panel: the handler's position, its worker,
\* the message the worker has posted and that is not yet delivered, the
\* records handed to bulkAddSpeakerData and the response to that call;
\* terminatedBy is history: 0 for nobody, -1 for the unmount cleanup,
\* otherwise the import whose handler called terminate
NoJob ==
    [pc |-> "none", file |-> <<>>, worker |-> "none", msg |-> "none",
     data |-> <<>>, response |-> NoResp, report |-> NoReport, terminatedBy |-> 0]

\* the user panel: mounted is "no" before it is rendered, "yes" while it
\* is, "gone" after; workerRef is 0 for null, otherwise the import whose
\* worker workerRef.current is
IdlePanel ==
    [mounted |-> "no", currentUserEmail |-> <<>>, workerRef |-> 0,
     job |-> [k \in Imports |-> NoJob]]

\* currentUser === null
NoUser == [email |-> Null, isAdmin |-> FALSE]

\* a handleLogin that is not running
NoLogin == [pc |-> "idle", email |-> <<>>, pass |-> <<>>]

\* the state of App after its mount effect; call is the handleLogin that
\* is under way, waiting for api.login or for getSpeakerDataByUser
IdleApp ==
    [currentUser |-> NoUser, speakerDataList |-> {}, isLoading |-> FALSE,
     loginError |-> FALSE, call |-> NoLogin]

\* the last call of a pure function: its name, argument and result
NoCall == [fn |-> "none", arg |-> <<>>, out |-> <<>>]

Init ==
    /\ speakers = {}
    /\ users = {}
    /\ imp = [r \in Imports |-> IdleImp]
    /\ del = IdleDel
    /\ cl = [c \in Clients |-> IdleClient]
    /\ observed = [rows |-> {}, during |-> {}]
    /\ pure = NoCall
    /\ ops = 0
    /\ pwReq = IdlePw
    /\ exportReq = IdleExport
    /\ panel = IdlePanel
    /\ app = IdleApp

(***************************************************************************)
(* Import requests.  Start runs the synchronous head of a request up to    *)
(* its first statement in the transaction: the client-side mapping and     *)
(* coercion (admin and user panel), or the server-side one (upload-csv),   *)
(* then deduplication, pool.connect() and BEGIN.                           *)
(***************************************************************************)
\* POST /speakers/bulk up to BEGIN
bulkRequest(slot, speakersBody) ==
    IF Len(speakersBody) = 0
    THEN [slot EXCEPT !.pc = "done", !.resp = errorResp("nodata", 400),
                      !.responses = @ + 1]
    ELSE LET uniqueSpeakers == uniqueSpeakersBulk(speakersBody, {})
         IN  IF Len(uniqueSpeakers) = 0
             THEN [slot EXCEPT !.pc = "done",
                               !.resp = countsResp(0, Len(speakersBody)),
                               !.responses = @ + 1]
             ELSE [slot EXCEPT !.pc = "chunk", !.unique = uniqueSpeakers]

\* POST /speakers/upload-csv up to BEGIN
csvRequest(slot, createdBy) ==
    IF ~Truthy(createdBy)
    THEN [slot EXCEPT !.pc = "done", !.resp = errorResp("badrequest", 400),
                      !.responses = @ + 1]
    ELSE IF Len(slot.body) = 0
    THEN [slot EXCEPT !.pc = "done", !.resp = errorResp("novalid", 400),
                      !.responses = @ + 1]
    ELSE LET uniqueSpeakers == uniqueSpeakersCsv(slot.body, {})
         IN  IF Len(uniqueSpeakers) = 0
             THEN [slot EXCEPT !.pc = "done",
                               !.resp = countsResp(0, Len(slot.body)),
                               !.responses = @ + 1]
             ELSE [slot EXCEPT !.pc = "chunk", !.unique = uniqueSpeakers]

\* Object.keys(results.data[0]).slice(0, 5) of the admin panel's toast
foundHeaders(data) ==
    IF Len(data) > 0
    THEN [i \in 1..(IF Len(data[1]) < 5 THEN Len(data[1]) ELSE 5) |-> data[1][i].h]
    ELSE <<>>

\* handleFileImport of the admin and the user panel, from the parsed rows
\* to the call of bulkAddSpeakerData
panelImport(slot, entry) ==
    IF entry = "admin" /\ Len(slot.raw) = 0
    THEN [slot EXCEPT !.pc = "done", !.resp = errorResp("empty", 0)]
    ELSE IF Len(slot.body) > 0
    THEN bulkRequest(slot, slot.body)
    ELSE IF entry = "admin"
    THEN [slot EXCEPT !.pc = "done",
                      !.resp = [errorResp("novalid", 0) EXCEPT
                                  !.headers = foundHeaders(slot.raw)]]
    ELSE [slot EXCEPT !.pc = "done", !.resp = errorResp("novalid", 0)]

\* entry is "api" (a JSON body posted to /speakers/bulk), "admin", "user"
\* or "csv"; input is the body for "api" and the parsed rows otherwise,
\* errors says that the parser's result came with a non-empty errors list:
\* upload-csv logs it, the complete callbacks of the panels do not read it.
\* before and prev are history, kept when asked for: the table when the
\* request arrived, the imports whose transaction was open then (during),
\* and the request this connection served last; chunks is history too, the
\* batches of the INSERT statements that have completed
Start(r, entry, who, input, errors, limit, history) ==
    /\ ops < limit
    /\ imp[r].pc \in {"idle", "done"}
    /\ LET data == IF entry = "api" THEN input
                   ELSE dataToImport(entry, remappedData(input), who)
           slot == [IdleImp EXCEPT !.entry = entry, !.who = who,
                                   !.raw = IF entry = "api" THEN <<>> ELSE input,
                                   !.errors = errors,
                                   !.body = data,
                                   !.before = IF history THEN speakers ELSE {},
                                   !.during = IF history
                                              THEN {q \in Imports : inTx(q)}
                                              ELSE {},
                                   !.prev = IF history
                                            THEN [entry |-> imp[r].entry,
                                                  body |-> imp[r].body,
                                                  resp |-> imp[r].resp]
                                            ELSE IdleImp.prev]
       IN  imp' = [imp EXCEPT ![r] =
                      IF entry = "api" THEN bulkRequest(slot, input)
                      ELSE IF entry = "csv" THEN csvRequest(slot, who)
                      ELSE panelImport(slot, entry)]
    /\ ops' = ops + 1
    /\ UNCHANGED <<speakers, cl, observed, users, del, pure, pwReq, exportReq, panel, app>>

\* the file cannot be read to its end: the parser calls the error callback
\* and never complete.  The admin panel shows the message; the worker of
\* the user panel posts it after the chunks it had parsed, which stay in
\* allData
ReadFail(r, entry, who, input, limit, history) ==
    /\ ops < limit
    /\ entry \in {"admin", "user"}
    /\ imp[r].pc \in {"idle", "done"}
    /\ imp' = [imp EXCEPT ![r] =
                  [IdleImp EXCEPT !.pc = "done", !.entry = entry, !.who = who,
                                  !.raw = input, !.errors = TRUE,
                                  !.resp = errorResp("parse", 0),
                                  !.before = IF history THEN speakers ELSE {}]]
    /\ ops' = ops + 1
    /\ UNCHANGED <<speakers, users, del, cl, observed, pure, pwReq, exportReq, panel, app>>

\* totalImportedCount += batch.length
importedInChunkBatch(st, batch) == Len(batch)

\* totalImportedCount += result.rowCount
importedInChunk(st, batch) == st.rowCount

\* pool.query in place of client.query: the statement commits on its own
autocommitted(table, st) == (table \ st.gone) \cup st.rows

\* client.query after BEGIN: what the other connections see of the table
\* once the statement has run
uncommitted(table, st) == table

\* one pass of the chunk loop: the INSERT of uniqueSpeakers.slice(i, i + batchSize)
InsertChunk(r) ==
    /\ imp[r].pc = "chunk"
    /\ \E ids \in [1..batchSize -> Ids] :
          LET me == imp[r]
              batch == slice(me.unique, me.i, me.i + batchSize)
              st == insertRows((speakers \ me.gone) \cup me.rows, othersPending(r),
                               batch, ids, 1,
                               [rows |-> {}, gone |-> {}, rowCount |-> 0,
                                err |-> FALSE, blocked |-> FALSE])
          IN  /\ ~st.blocked
              /\ speakers' = IF st.err THEN speakers ELSE uncommitted(speakers, st)
              /\ imp' = [imp EXCEPT ![r] =
                    IF st.err
                    THEN [me EXCEPT !.pc = "catch", !.failure = "constraint"]
                    ELSE [me EXCEPT
                            !.rows = (@ \ st.gone) \cup st.rows,
                            !.gone = @ \cup (st.gone \cap speakers),
                            !.count = @ + importedInChunk(st, batch),
                            !.chunks = Append(@, batch),
                            !.i = @ + batchSize,
                            !.pc = IF me.i + batchSize < Len(me.unique)
                                   THEN "chunk" ELSE "commit"]]
    /\ UNCHANGED <<cl, observed, ops, users, del, pure, pwReq, exportReq, panel, app>>

\* the INSERT of a chunk is rejected for a reason of its own (connection
\* lost, statement timeout, deadlock victim): control goes to the catch
ChunkFail(r) ==
    /\ imp[r].pc = "chunk"
    /\ imp' = [imp EXCEPT ![r].pc = "catch", ![r].failure = "fault"]
    /\ UNCHANGED <<speakers, cl, observed, ops, users, del, pure, pwReq, exportReq, panel, app>>

\* a ROLLBACK in the place of COMMIT
commitTxNone(table, me) == table

\* what COMMIT does to the table
commitTx(table, me) == (table \ me.gone) \cup me.rows

\* uniqueSpeakers.length - totalImportedCount
skippedCountUnique(me) == Len(me.unique) - me.count

\* speakers.length - totalImportedCount
skippedCount(me) == Len(me.body) - me.count

\* COMMIT, the counts response and client.release()
Commit(r) ==
    /\ imp[r].pc = "commit"
    /\ speakers' = commitTx(speakers, imp[r])
    /\ imp' = [imp EXCEPT ![r].pc = "done",
                          ![r].resp = countsResp(imp[r].count, skippedCount(imp[r])),
                          ![r].responses = @ + 1,
                          ![r].released = @ + 1]
    /\ UNCHANGED <<cl, observed, ops, users, del, pure, pwReq, exportReq, panel, app>>

\* catch: ROLLBACK succeeds, the 500 response, client.release()
Rollback(r) ==
    /\ imp[r].pc = "catch"
    /\ imp' = [imp EXCEPT ![r].pc = "done", ![r].rows = {}, ![r].gone = {},
                          ![r].resp = errorResp("error", 500),
                          ![r].responses = @ + 1,
                          ![r].released = @ + 1]
    /\ UNCHANGED <<speakers, cl, observed, ops, users, del, pure, pwReq, exportReq, panel, app>>

\* catch: the ROLLBACK query itself rejects (the connection is gone, so the
\* server discards the transaction); finally releases the client and the
\* rejection leaves the handler.  In upload-csv the outer catch answers 500;
\* the bulk handler has no outer catch, and whether the framework answers
\* for a rejected handler depends on its version
RollbackFail(r) ==
    /\ imp[r].pc = "catch"
    /\ \E answered \in BOOLEAN :
          /\ imp[r].entry = "csv" => answered
          /\ imp' = [imp EXCEPT ![r].pc = "done", ![r].rows = {}, ![r].gone = {},
                       ![r].resp = IF answered THEN errorResp("error", 500)
                                   ELSE NoResp,
                       ![r].responses = IF answered THEN @ + 1 ELSE @,
                       ![r].released = @ + 1]
    /\ UNCHANGED <<speakers, cl, observed, ops, users, del, pure, pwReq, exportReq, panel, app>>

(***************************************************************************)
(* Single add and edit: handleSubmit of the user panel, and the statements *)
(* behind POST /speakers, PUT /speakers/:id, DELETE /speakers/:id, the     *)
(* email check and GET /speakers.                                          *)
(***************************************************************************)
U1 == <<"u", "1">>
U2 == <<"u", "2">>
Admin == <<"a", "d">>

userOf(c) == IF c = 1 THEN U1 ELSE U2

\* /\S+@\S+\.\S+/.test(s)
emailRegex(s) ==
    \E i \in 1..Len(s), j \in 1..Len(s) :
        /\ s[i] = "@" /\ s[j] = "."
        /\ i > 1 /\ ~IsSpace(s[i - 1])
        /\ j > i + 1 /\ \A k \in (i + 1)..(j - 1) : ~IsSpace(s[k])
        /\ j < Len(s) /\ ~IsSpace(s[j + 1])

\* the mandatory fields present here are firstName and businessEmail
validateForm(form) ==
    /\ \A value \in {form.firstName, form.businessEmail} :
          value # Undefined /\ value # Null /\ trim(String(value)) # <<>>
    /\ Truthy(form.businessEmail) => emailRegex(form.businessEmail)

\* the check with LOWER("businessEmail") = LOWER($1)
emailCheckNoCase(table, email, exclude) ==
    \E row \in table :
        /\ row.businessEmail # Null
        /\ toLowerCase(row.businessEmail) = toLowerCase(email)
        /\ exclude # NoId => row.id # exclude

\* GET /speakers/email-check/:email?exclude=
emailCheck(table, email, exclude) ==
    IF exclude # NoId
    THEN \E row \in table : sqlEq(row.businessEmail, email) /\ row.id # exclude
    ELSE \E row \in table : sqlEq(row.businessEmail, email)

\* the INSERT on a table without the unique index on "businessEmail"
insertSpeakerNoIndex(table, row) ==
    IF idConflict(table, row.id)
    THEN [table |-> table, ok |-> FALSE]
    ELSE [table |-> table \cup {row}, ok |-> TRUE]

\* INSERT INTO speakers ... RETURNING *
insertSpeaker(table, row) ==
    IF emailConflict(table, row.businessEmail) \/ idConflict(table, row.id)
    THEN [table |-> table, ok |-> FALSE]
    ELSE [table |-> table \cup {row}, ok |-> TRUE]

\* the UPDATE with "createdBy" among the columns it sets
updateSpeakerAll(table, id, s) ==
    LET target == {t \in table : t.id = id}
        changed == {[t EXCEPT !.createdBy = toSql(IF "createdBy" \in DOMAIN s
                                                  THEN s.createdBy ELSE Undefined),
                              !.firstName = toSql(s.firstName),
                              !.businessEmail = toSql(s.businessEmail)] : t \in target}
    IN  IF \E n \in changed : emailConflict(table \ target, n.businessEmail)
        THEN [table |-> table, ok |-> FALSE]
        ELSE [table |-> (table \ target) \cup changed, ok |-> TRUE]

\* UPDATE speakers SET ... WHERE id = $32 RETURNING *
updateSpeaker(table, id, s) ==
    LET target == {t \in table : t.id = id}
        changed == {[t EXCEPT !.firstName = toSql(s.firstName),
                              !.businessEmail = toSql(s.businessEmail)] : t \in target}
    IN  IF \E n \in changed : emailConflict(table \ target, n.businessEmail)
        THEN [table |-> table, ok |-> FALSE]
        ELSE [table |-> (table \ target) \cup changed, ok |-> TRUE]

\* handleSubmit up to the answer of isBusinessEmailInUse
Submit(c, form, editing, limit) ==
    /\ ops < limit
    /\ cl[c].pc = "idle"
    /\ validateForm(form)
    /\ LET isDuplicate == emailCheck(speakers, form.businessEmail, editing)
       IN  cl' = [cl EXCEPT ![c] =
                    [pc |-> IF isDuplicate THEN "idle" ELSE "checked",
                     form |-> form, editing |-> editing,
                     isDuplicate |-> isDuplicate,
                     result |-> IF isDuplicate THEN "dup" ELSE "none"]]
    /\ ops' = ops + 1
    /\ UNCHANGED <<speakers, imp, observed, users, del, pure, pwReq, exportReq, panel, app>>

\* handleSubmit after the check: onAddSpeaker or onUpdateSpeaker; the
\* statement waits while an open transaction holds the email or the id
Save(c) ==
    /\ cl[c].pc = "checked"
    /\ ~emailConflict(allPending, toSql(cl[c].form.businessEmail))
    /\ IF cl[c].editing # NoId
       THEN LET res == updateSpeaker(speakers, cl[c].editing, cl[c].form)
            IN  /\ speakers' = res.table
                /\ cl' = [cl EXCEPT ![c].pc = "idle",
                             ![c].result = IF res.ok THEN "updated" ELSE "error"]
       ELSE \E newId \in Ids :
              /\ ~idConflict(allPending, newId)
              /\ LET row == [id |-> rowId(cl[c].form, newId), createdBy |-> userOf(c),
                             firstName |-> toSql(cl[c].form.firstName),
                             businessEmail |-> toSql(cl[c].form.businessEmail)]
                     res == insertSpeaker(speakers, row)
                 IN  /\ speakers' = res.table
                     /\ cl' = [cl EXCEPT ![c].pc = "idle",
                                 ![c].result = IF res.ok THEN "added" ELSE "error"]
    /\ UNCHANGED <<imp, observed, ops, users, del, pure, pwReq, exportReq, panel, app>>

\* POST /speakers with an arbitrary JSON body
PostSpeaker(s, limit) ==
    /\ ops < limit
    /\ ~emailConflict(allPending, toSql(s.businessEmail))
    /\ \E newId \in Ids :
          /\ ~idConflict(allPending, newId)
          /\ speakers' = insertSpeaker(speakers,
                            [id |-> rowId(s, newId), createdBy |-> toSql(s.createdBy),
                             firstName |-> toSql(s.firstName),
                             businessEmail |-> toSql(s.businessEmail)]).table
    /\ ops' = ops + 1
    /\ UNCHANGED <<imp, cl, observed, users, del, pure, pwReq, exportReq, panel, app>>

\* PUT /speakers/:id with an arbitrary JSON body
PutSpeaker(id, s, limit) ==
    /\ ops < limit
    /\ ~emailConflict(allPending, toSql(s.businessEmail))
    /\ speakers' = updateSpeaker(speakers, id, s).table
    /\ ops' = ops + 1
    /\ UNCHANGED <<imp, cl, observed, users, del, pure, pwReq, exportReq, panel, app>>

\* DELETE /speakers/:id
DeleteSpeaker(id, limit) ==
    /\ ops < limit
    /\ \E row \in speakers : row.id = id
    /\ speakers' = {row \in speakers : row.id # id}
    /\ ops' = ops + 1
    /\ UNCHANGED <<imp, cl, observed, users, del, pure, pwReq, exportReq, panel, app>>

\* GET /speakers; during is history: the imports that had uncommitted rows
\* when the SELECT ran
GetSpeakers(limit) ==
    /\ ops < limit
    /\ observed' = [rows |-> speakers,
                    during |-> {r \in Imports : inTx(r) /\ imp[r].rows # {}}]
    /\ ops' = ops + 1
    /\ UNCHANGED <<speakers, imp, cl, users, del, pure, pwReq, exportReq, panel, app>>

(***************************************************************************)
(* User accounts: POST /users and the transaction of DELETE /users/:email. *)
(* An account is [email, password, isAdmin].                               *)
(***************************************************************************)
Passwords == {<<"p">>, <<"q">>}

\* POST /users; the 23505 branch is the unique index on users.email
PostUser(email, password, isAdmin, limit) ==
    /\ ops < limit
    /\ \E generateRandomPassword \in Passwords :
          LET pw == IF ~Truthy(password) THEN generateRandomPassword ELSE password
          IN  users' = IF \E u \in users : u.email = email
                       THEN users
                       ELSE users \cup {[email |-> email, password |-> pw,
                                         isAdmin |-> isAdmin]}
    /\ ops' = ops + 1
    /\ UNCHANGED <<speakers, imp, del, cl, observed, pure, pwReq, exportReq, panel, app>>

\* pool.connect() and BEGIN
DeleteUserStart(email, limit) ==
    /\ ops < limit
    /\ del.pc \in {"idle", "done"}
    /\ del' = [IdleDel EXCEPT !.pc = "speakers", !.email = email,
                              !.beforeSpeakers = speakers, !.beforeUsers = users]
    /\ ops' = ops + 1
    /\ UNCHANGED <<speakers, users, imp, cl, observed, pure, pwReq, exportReq, panel, app>>

\* pool.query in place of client.query: the DELETE commits on its own
autocommittedDelete(table, gone) == table \ gone

\* client.query after BEGIN: what is committed of the table once the
\* DELETE has run
uncommittedDelete(table, gone) == table

\* DELETE FROM speakers WHERE "createdBy" = $1
DeleteUserSpeakers ==
    /\ del.pc = "speakers"
    /\ LET gone == {row \in speakers : sqlEq(row.createdBy, del.email)}
       IN  /\ speakers' = uncommittedDelete(speakers, gone)
           /\ del' = [del EXCEPT !.pc = "users", !.goneSpeakers = gone]
    /\ UNCHANGED <<users, imp, cl, observed, pure, ops, pwReq, exportReq, panel, app>>

\* DELETE FROM users WHERE email = $1
DeleteUserAccount ==
    /\ del.pc = "users"
    /\ LET gone == {u \in users : sqlEq(u.email, del.email)}
       IN  /\ users' = uncommittedDelete(users, gone)
           /\ del' = [del EXCEPT !.pc = "commit", !.goneUsers = gone]
    /\ UNCHANGED <<speakers, imp, cl, observed, pure, ops, pwReq, exportReq, panel, app>>

\* one of the two DELETE statements is rejected: control goes to the catch
DeleteUserFail ==
    /\ del.pc \in {"speakers", "users"}
    /\ del' = [del EXCEPT !.pc = "catch", !.failure = del.pc]
    /\ UNCHANGED <<speakers, users, imp, cl, observed, pure, ops, pwReq, exportReq, panel, app>>

\* COMMIT, the 204 response and client.release()
DeleteUserCommit ==
    /\ del.pc = "commit"
    /\ speakers' = speakers \ del.goneSpeakers
    /\ users' = users \ del.goneUsers
    /\ del' = [del EXCEPT !.pc = "done", !.status = 204, !.responses = @ + 1,
                          !.released = @ + 1]
    /\ UNCHANGED <<imp, cl, observed, pure, ops, pwReq, exportReq, panel, app>>

\* catch: ROLLBACK succeeds, the 500 response, client.release()
DeleteUserRollback ==
    /\ del.pc = "catch"
    /\ del' = [del EXCEPT !.pc = "done", !.goneSpeakers = {}, !.goneUsers = {},
                          !.status = 500, !.responses = @ + 1, !.released = @ + 1]
    /\ UNCHANGED <<speakers, users, imp, cl, observed, pure, ops, pwReq, exportReq, panel, app>>

\* catch: the ROLLBACK query itself rejects; the server discards the
\* transaction, finally releases the client, and the rejection leaves the
\* handler, which has no outer catch
DeleteUserRollbackFail ==
    /\ del.pc = "catch"
    /\ \E answered \in BOOLEAN :
          del' = [del EXCEPT !.pc = "done", !.goneSpeakers = {}, !.goneUsers = {},
                            !.status = IF answered THEN 500 ELSE 0,
                            !.responses = IF answered THEN @ + 1 ELSE @,
                            !.released = @ + 1]
    /\ UNCHANGED <<speakers, users, imp, cl, observed, pure, ops, pwReq, exportReq, panel, app>>

(***************************************************************************)
(* PUT /users/change-password, statement by statement, and the admin's     *)
(* PUT /users/:originalEmail.                                              *)
(***************************************************************************)
\* the SELECT without the password test
verifyByEmail(table, email, currentPassword) ==
    {u \in table : sqlEq(u.email, email)}

\* SELECT id FROM users WHERE email = $1 AND password = $2
verifyResult(table, email, currentPassword) ==
    {u \in table : sqlEq(u.email, email) /\ sqlEq(u.password, currentPassword)}

\* the head of the handler: the 400 when a field of the body is missing
ChangePasswordStart(email, currentPassword, newPassword, limit) ==
    /\ ops < limit
    /\ pwReq.pc \in {"idle", "done"}
    /\ LET req == [IdlePw EXCEPT !.email = email,
                                 !.currentPassword = currentPassword,
                                 !.newPassword = newPassword,
                                 !.before = users]
       IN  pwReq' = IF ~Truthy(email) \/ ~Truthy(currentPassword) \/ ~Truthy(newPassword)
                    THEN [req EXCEPT !.pc = "done", !.status = 400]
                    ELSE [req EXCEPT !.pc = "verify"]
    /\ ops' = ops + 1
    /\ UNCHANGED <<speakers, users, imp, del, cl, observed, pure, exportReq, panel, app>>

\* the SELECT and the 401 when it finds no row
ChangePasswordVerify ==
    /\ pwReq.pc = "verify"
    /\ pwReq' = IF verifyResult(users, pwReq.email, pwReq.currentPassword) = {}
                 THEN [pwReq EXCEPT !.pc = "done", !.status = 401]
                 ELSE [pwReq EXCEPT !.pc = "update"]
    /\ UNCHANGED <<speakers, users, imp, del, cl, observed, pure, ops, exportReq, panel, app>>

\* UPDATE users SET password = $1 WHERE email = $2, and the 200
ChangePasswordUpdate ==
    /\ pwReq.pc = "update"
    /\ users' = {IF sqlEq(u.email, pwReq.email)
                 THEN [u EXCEPT !.password = pwReq.newPassword] ELSE u : u \in users}
    /\ pwReq' = [pwReq EXCEPT !.pc = "done", !.status = 200]
    /\ UNCHANGED <<speakers, imp, del, cl, observed, pure, ops, exportReq, panel, app>>

\* one of the two queries rejects: the catch answers 500
ChangePasswordFail ==
    /\ pwReq.pc \in {"verify", "update"}
    /\ pwReq' = [pwReq EXCEPT !.pc = "done", !.status = 500, !.failure = pwReq.pc]
    /\ UNCHANGED <<speakers, users, imp, del, cl, observed, pure, ops, exportReq, panel, app>>

\* PUT /users/:originalEmail: one UPDATE, with the password when the body
\* has one; the 23505 branch is the unique index on users.email
PutUser(originalEmail, email, password, limit) ==
    /\ ops < limit
    /\ LET target == {u \in users : sqlEq(u.email, originalEmail)}
           changed == {[u EXCEPT !.email = email,
                                 !.password = IF Truthy(password) THEN password ELSE @] :
                          u \in target}
       IN  users' = IF \E u \in users \ target : sqlEq(u.email, email)
                    THEN users
                    ELSE (users \ target) \cup changed
    /\ ops' = ops + 1
    /\ UNCHANGED <<speakers, imp, del, cl, observed, pure, pwReq, exportReq, panel, app>>

(***************************************************************************)
(* App: login, logout and the record list of the logged-in user.           *)
(***************************************************************************)
\* what renderContent shows
rendered ==
    IF app.isLoading /\ app.currentUser = NoUser THEN "loading"
    ELSE IF app.currentUser = NoUser THEN "login"
    ELSE IF app.currentUser.isAdmin THEN "admin"
    ELSE "user"

\* handleLogin up to the call of api.login, from the login form
HandleLogin(email, pass, limit) ==
    /\ ops < limit
    /\ rendered = "login"
    /\ app.call.pc = "idle"
    /\ app' = [app EXCEPT !.loginError = FALSE, !.isLoading = TRUE,
                          !.call = [pc |-> "login", email |-> email, pass |-> pass]]
    /\ ops' = ops + 1
    /\ UNCHANGED <<speakers, users, imp, del, cl, observed, pure, pwReq, exportReq, panel>>

\* POST /auth/login answers and handleLogin goes on: setCurrentUser, and
\* for a user who is no admin the call of getSpeakerDataByUser; the render
\* that follows mounts a new user panel
LoginReply ==
    /\ app.call.pc = "login"
    /\ LET rows == {u \in users : /\ sqlEq(u.email, app.call.email)
                                  /\ sqlEq(u.password, app.call.pass)}
       IN  IF rows # {}
           THEN LET u == CHOOSE u \in rows : TRUE
                    user == [email |-> u.email, isAdmin |-> u.isAdmin]
                IN  IF user.isAdmin
                    THEN /\ app' = [app EXCEPT !.currentUser = user,
                                               !.isLoading = FALSE, !.call = NoLogin]
                         /\ panel' = panel
                    ELSE /\ app' = [app EXCEPT !.currentUser = user, !.call.pc = "fetch"]
                         /\ panel' = [IdlePanel EXCEPT !.mounted = "yes",
                                                       !.currentUserEmail = user.email]
           ELSE /\ app' = [app EXCEPT !.loginError = TRUE, !.isLoading = FALSE,
                                      !.call = NoLogin]
                /\ panel' = panel
    /\ UNCHANGED <<speakers, users, imp, del, cl, observed, pure, ops, pwReq, exportReq>>

\* SELECT * FROM speakers WHERE "createdBy" = $1
speakersOfUser(table, email) == {row \in table : sqlEq(row.createdBy, email)}

\* GET /speakers/user/:email answers and handleLogin ends:
\* setSpeakerDataList(data), setIsLoading(false)
FetchReply ==
    /\ app.call.pc = "fetch"
    /\ app' = [app EXCEPT !.speakerDataList = speakersOfUser(speakers, app.call.email),
                          !.isLoading = FALSE, !.call = NoLogin]
    /\ UNCHANGED <<speakers, users, imp, del, cl, observed, pure, ops, pwReq, exportReq, panel>>

\* getSpeakerDataByUser rejects: handleLogin ends by the exception, before
\* setSpeakerDataList and setIsLoading(false)
FetchFail ==
    /\ app.call.pc = "fetch"
    /\ app' = [app EXCEPT !.call = NoLogin]
    /\ UNCHANGED <<speakers, users, imp, del, cl, observed, pure, ops, pwReq, exportReq, panel>>

\* worker.terminate() on workerRef.current, called by the handler of import
\* by (-1: by the cleanup); a message the worker has posted and that is
\* not yet delivered is dropped or not
terminate(p, by, dropped) ==
    LET k == p.workerRef
    IN  IF k = 0 \/ p.job[k].worker = "terminated" THEN p
        ELSE [p EXCEPT !.job[k].worker = "terminated",
                       !.job[k].terminatedBy = by,
                       !.job[k].msg = IF dropped THEN "none" ELSE @]

\* handleLogout, from the header that is shown to a logged-in user; the
\* render that follows unmounts the user panel, whose cleanup effect runs
HandleLogout ==
    /\ rendered \in {"admin", "user"}
    /\ app' = [app EXCEPT !.currentUser = NoUser, !.speakerDataList = {}]
    /\ \E dropped \in BOOLEAN :
          panel' = IF rendered = "user"
                   THEN [terminate(panel, -1, dropped) EXCEPT !.mounted = "gone"]
                   ELSE panel
    /\ UNCHANGED <<speakers, users, imp, del, cl, observed, pure, ops, pwReq, exportReq>>

(***************************************************************************)
(* Calls of the pure parts of the import pipeline, one at a time.          *)
(***************************************************************************)
CallNormalizeKey(key) ==
    /\ pure' = [fn |-> "normalizeKey", arg |-> key, out |-> normalizeKey(key)]
    /\ UNCHANGED <<speakers, users, imp, del, cl, observed, ops, pwReq, exportReq, panel, app>>

\* the field mapper on one parsed row
CallRemap(originalRow) ==
    /\ pure' = [fn |-> "remap", arg |-> originalRow, out |-> remapRow(originalRow, <<>>)]
    /\ UNCHANGED <<speakers, users, imp, del, cl, observed, ops, pwReq, exportReq, panel, app>>

\* the boolean fields of the record coerced from one parsed row
CallFlags(originalRow) ==
    /\ pure' = [fn |-> "flags", arg |-> originalRow,
                out |-> flags(remapRow(originalRow, <<>>))]
    /\ UNCHANGED <<speakers, users, imp, del, cl, observed, ops, pwReq, exportReq, panel, app>>

(***************************************************************************)
(* Inputs.                                                                 *)
(***************************************************************************)
EA == <<"a", "@", "x", ".", "c">>
EAup == <<"A", "@", "X", ".", "C">>
EB == <<"b", "@", "x", ".", "c">>
EC == <<"c", "@", "x", ".", "c">>
ED == <<"d", "@", "x", ".", "c">>
EE == <<"e", "@", "x", ".", "c">>
Blank == <<" ">>
X == <<"x">>
Y == <<"y">>
HEmail == <<"E", "m", "a", "i", "l">>
HBusinessEmail == <<"B", "u", "s", "i", "n", "e", "s", "s", " ", "E", "m", "a", "i", "l">>
HFirstName == <<"F", "i", "r", "s", "t", " ", "N", "a", "m", "e">>
HNotes == <<"N", "o", "t", "e", "s">>

SeqsUpTo(S, n) == UNION {[1..k -> S] : k \in 0..n}

\* a JSON record; like the records of the client it may carry an id
rec(e, f, u) == [id |-> GivenId, createdBy |-> u, firstName |-> f, businessEmail |-> e]

cell(h, v) == [h |-> h, v |-> v]

\* JSON bodies posted to /speakers/bulk
Bodies(emails) == SeqsUpTo({rec(e, X, U1) : e \in emails}, MaxBatch)

\* parsed CSV files: an email column under one of two spellings, or no
\* email column at all
RawRows ==
    {<<cell(HEmail, EA), cell(HFirstName, X)>>,
     <<cell(HBusinessEmail, EAup)>>,
     <<cell(HFirstName, Y), cell(HEmail, EB)>>,
     <<cell(HEmail, <<>>), cell(HFirstName, X)>>,
     <<cell(HBusinessEmail, Blank)>>,
     <<cell(HNotes, EA), cell(HFirstName, Y)>>}

Files == SeqsUpTo(RawRows, MaxBatch)

Forms(emails) == {[firstName |-> X, businessEmail |-> e] : e \in emails}

HCreatedBy == <<"C", "r", "e", "a", "t", "e", "d", " ", "B", "y">>

\* the rows of a file with the given header line
parsed(headers, lines) ==
    [i \in 1..Len(lines) |-> [j \in 1..Len(headers) |-> cell(headers[j], lines[i][j])]]

\* parsed CSV files with one header line: files with a creator and an email
\* column, and files without an email column
CsvFiles ==
    {parsed(<<HCreatedBy, HEmail>>, lines) :
        lines \in SeqsUpTo({U2, <<>>} \X {EA, EAup, Blank}, MaxBatch)}
    \cup {parsed(<<HNotes, HFirstName>>, lines) :
             lines \in SeqsUpTo({<<EA, Y>>}, MaxBatch)}

(***************************************************************************)
(* The concurrent system: two connections serving imports, two user panels *)
(* adding and editing, direct deletes and reads.                           *)
(***************************************************************************)
\* batches of pairwise different emails of every length up to MaxBatch, and
\* one batch that repeats an email in another case
ConcBodies ==
    {[i \in 1..k |-> rec(<<EA, EB, EC, ED, EE>>[i], X, U1)] : k \in 1..MaxBatch}
    \cup {<<rec(EAup, X, U1), rec(EA, X, U1)>>}

Next ==
    \/ \E r \in Imports, b \in ConcBodies : Start(r, "api", U1, b, FALSE, MaxOps, FALSE)
    \/ \E r \in Imports : InsertChunk(r)
    \/ \E r \in Imports : ChunkFail(r)
    \/ \E r \in Imports : Commit(r)
    \/ \E r \in Imports : Rollback(r)
    \/ \E r \in Imports : RollbackFail(r)
    \/ \E c \in Clients, f \in Forms({EA, EAup, <<>>}),
          e \in {NoId} \cup {row.id : row \in speakers} : Submit(c, f, e, MaxOps)
    \/ \E c \in Clients : Save(c)
    \/ \E e \in {EA, <<>>, Undefined} : PostSpeaker(rec(e, Y, U2), MaxOps)
    \/ \E row \in speakers : PutSpeaker(row.id, rec(EB, Y, Admin), MaxOps)
    \/ \E id \in Ids : DeleteSpeaker(id, MaxOps)
    \/ GetSpeakers(MaxOps)

Spec == Init /\ [][Next]_vars

(***************************************************************************)
(* The sequential system: one connection; a single add may come first,     *)
(* then an import of any JSON batch, then the same batch again.            *)
(***************************************************************************)
SeqEmails == {EA, EAup, EB, EC, <<>>}

NextSeq ==
    \/ imp[1].pc = "idle" /\ PostSpeaker(rec(EA, Y, U2), 1)
    \/ \E b \in Bodies(SeqEmails) :
          /\ imp[1].pc = "done" => b = imp[1].body
          /\ Start(1, "api", U1, b, FALSE, MaxSeqOps, TRUE)
    \/ InsertChunk(1)
    \/ ChunkFail(1)
    \/ Commit(1)
    \/ Rollback(1)
    \/ RollbackFail(1)

SpecSeq == Init /\ [][NextSeq]_vars

(***************************************************************************)
(* The import entry points, one import at a time after at most one single *)
(* add: the admin panel, the user panel and upload-csv fed with parsed CSV *)
(* files, and /speakers/bulk fed with JSON batches.                        *)
(***************************************************************************)
NextEntry ==
    \/ imp[1].pc = "idle" /\ PostSpeaker(rec(EA, Y, U2), 1)
    \/ \E entry \in {"admin", "user", "csv"}, f \in Files :
          /\ imp[1].pc = "idle"
          /\ Start(1, entry, U1, f, FALSE, 2, TRUE)
    \/ \E b \in Bodies(SeqEmails \cup {Undefined}) :
          /\ imp[1].pc = "idle"
          /\ Start(1, "api", U1, b, FALSE, 2, TRUE)
    \/ InsertChunk(1)
    \/ ChunkFail(1)
    \/ Commit(1)
    \/ Rollback(1)
    \/ RollbackFail(1)

SpecEntry == Init /\ [][NextEntry]_vars

(***************************************************************************)
(* The three CSV entry points fed with what the parser hands over: the     *)
(* rows of a file, with or without parse errors, or a read failure.        *)
(***************************************************************************)
NextFile ==
    \/ imp[1].pc = "idle" /\ PostSpeaker(rec(EA, Y, U2), 1)
    \/ \E entry \in {"admin", "user", "csv"}, f \in CsvFiles, errors \in BOOLEAN :
          /\ imp[1].pc = "idle"
          /\ Start(1, entry, U1, f, errors, 2, TRUE)
    \/ \E entry \in {"admin", "user"}, f \in CsvFiles :
          /\ imp[1].pc = "idle"
          /\ ReadFail(1, entry, U1, f, 2, TRUE)
    \/ InsertChunk(1)
    \/ ChunkFail(1)
    \/ Commit(1)
    \/ Rollback(1)
    \/ RollbackFail(1)

SpecFile == Init /\ [][NextFile]_vars

(***************************************************************************)
(* The pure parts on their own: every header over a small alphabet, and    *)
(* every row of up to MaxCells cells with different headers.               *)
(***************************************************************************)
HeaderChars == {"a", "B", " ", "\t", "1", SharpS}

Headers == SeqsUpTo(HeaderChars, MaxHeader) \cup {Undefined}

HConstructor == <<"c", "o", "n", "s", "t", "r", "u", "c", "t", "o", "r">>
HIsCeo == <<"I", "s", " ", "C", "E", "O">>
HEmailValid == <<"e", "m", "a", "i", "l", "V", "a", "l", "i", "d">>

rowsOf(cells) ==
    {row \in SeqsUpTo(cells, MaxCells) :
        \A i \in 1..Len(row), j \in 1..Len(row) : i # j => row[i].h # row[j].h}

MapperRows ==
    rowsOf({cell(h, v) : h \in {HEmail, HBusinessEmail, HFirstName, HNotes, HConstructor},
                         v \in {EA, X, <<>>}})

FlagWords ==
    {<<"t", "r", "u", "e">>, <<"T", "R", "U", "E">>, <<"Y", "e", "s">>, <<"1">>,
     <<"0">>, <<"n", "o">>, <<" ", "1">>, <<>>}

FlagRows ==
    rowsOf({cell(h, v) : h \in {HIsCeo, HEmailValid, HNotes}, v \in FlagWords})

\* a call does not depend on the calls before it: each is made from the
\* initial state
NextPure ==
    \/ \E key \in Headers : pure = NoCall /\ CallNormalizeKey(key)
    \/ \E row \in MapperRows : pure = NoCall /\ CallRemap(row)
    \/ \E row \in FlagRows : pure = NoCall /\ CallFlags(row)

SpecPure == Init /\ [][NextPure]_vars

(***************************************************************************)
(* Accounts and their records, one request at a time: accounts are         *)
(* created, records are added for them, accounts are deleted.              *)
(***************************************************************************)
NextUsers ==
    \/ \E email \in {U1, U2}, password \in {<<>>, <<"p">>} :
          /\ del.pc \in {"idle", "done"}
          /\ PostUser(email, password, FALSE, MaxUserOps)
    \/ \E e \in {EA, EB, EC}, u \in {U1, U2} :
          /\ del.pc \in {"idle", "done"}
          /\ PostSpeaker(rec(e, X, u), MaxUserOps)
    \/ \E email \in {U1, U2} : DeleteUserStart(email, MaxUserOps)
    \/ DeleteUserSpeakers
    \/ DeleteUserAccount
    \/ DeleteUserFail
    \/ DeleteUserCommit
    \/ DeleteUserRollback
    \/ DeleteUserRollbackFail

SpecUsers == Init /\ [][NextUsers]_vars

(***************************************************************************)
(* Two imports on two connections, after at most one single add: JSON      *)
(* batches posted to /speakers/bulk and files posted to upload-csv that     *)
(* share emails, in the same and in opposite order.                         *)
(***************************************************************************)
TwoBodies ==
    {<<rec(EA, X, U1), rec(EB, X, U1), rec(EC, X, U1)>>,
     <<rec(EC, Y, U2), rec(EA, Y, U2)>>,
     <<rec(EB, Y, U2)>>,
     <<rec(EAup, Y, U2), rec(EB, Y, U2), rec(EA, Y, U2)>>}

TwoFiles ==
    {<<<<cell(HFirstName, Y), cell(HEmail, EB)>>, <<cell(HEmail, EA), cell(HFirstName, X)>>>>}

NextTwo ==
    \/ /\ \A r \in Imports : imp[r].pc = "idle"
       /\ PostSpeaker(rec(EA, Y, U2), 1)
    \/ \E r \in Imports, b \in TwoBodies :
          imp[r].pc = "idle" /\ Start(r, "api", U1, b, FALSE, 3, TRUE)
    \/ \E r \in Imports, f \in TwoFiles :
          imp[r].pc = "idle" /\ Start(r, "csv", Admin, f, FALSE, 3, TRUE)
    \/ \E r \in Imports : InsertChunk(r)
    \/ \E r \in Imports : ChunkFail(r)
    \/ \E r \in Imports : Commit(r)
    \/ \E r \in Imports : Rollback(r)
    \/ \E r \in Imports : RollbackFail(r)

SpecTwo == Init /\ [][NextTwo]_vars

(***************************************************************************)
(* Accounts over their life: accounts are created, renamed and deleted;    *)
(* the users that exist add records, also while an account is being        *)
(* deleted, and an admin imports files that may have a creator column.     *)
(***************************************************************************)
isUser(email) == \E u \in users : u.email = email

isAdminUser(email) == \E u \in users : u.email = email /\ u.isAdmin

AccountFiles ==
    {parsed(<<HCreatedBy, HEmail>>, <<<<U2, EA>>>>),
     parsed(<<HCreatedBy, HEmail>>, <<<<<<>>, EB>>>>)}

quiet == del.pc \in {"idle", "done"} /\ imp[1].pc \in {"idle", "done"}

NextAccounts ==
    \/ \E email \in {U1, U2} : quiet /\ PostUser(email, <<"p">>, FALSE, MaxUserOps)
    \/ quiet /\ PostUser(Admin, <<"p">>, TRUE, MaxUserOps)
    \/ \E originalEmail \in {U1, U2}, email \in {U1, U2} :
          quiet /\ PutUser(originalEmail, email, <<>>, MaxUserOps)
    \/ \E e \in {EA, EB}, u \in {U1, U2} :
          isUser(u) /\ PostSpeaker(rec(e, X, u), MaxUserOps)
    \/ \E f \in AccountFiles :
          quiet /\ isAdminUser(Admin) /\ Start(1, "admin", Admin, f, FALSE, MaxUserOps, TRUE)
    \/ \E f \in AccountFiles, u \in {U1, U2} :
          quiet /\ isUser(u) /\ Start(1, "user", u, f, FALSE, MaxUserOps, TRUE)
    \/ InsertChunk(1)
    \/ ChunkFail(1)
    \/ Commit(1)
    \/ Rollback(1)
    \/ RollbackFail(1)
    \/ \E email \in {U1, U2} : quiet /\ DeleteUserStart(email, MaxUserOps)
    \/ DeleteUserSpeakers
    \/ DeleteUserAccount
    \/ DeleteUserFail
    \/ DeleteUserCommit
    \/ DeleteUserRollback
    \/ DeleteUserRollbackFail

SpecAccounts == Init /\ [][NextAccounts]_vars

(***************************************************************************)
(* App with its server: accounts are created, their users add records,     *)
(* log in and out.                                                         *)
(***************************************************************************)
NextApp ==
    \/ \E email \in {U1, U2} : PostUser(email, <<"p">>, FALSE, MaxUserOps + 1)
    \/ PostUser(Admin, <<"p">>, TRUE, MaxUserOps + 1)
    \/ \E e \in {EA, EB}, u \in {U1, U2} :
          isUser(u) /\ PostSpeaker(rec(e, X, u), MaxUserOps + 1)
    \/ \E email \in {U1, U2, Admin}, pass \in {<<"p">>, <<"q">>} :
          HandleLogin(email, pass, MaxUserOps + 1)
    \/ LoginReply
    \/ FetchReply
    \/ FetchFail
    \/ HandleLogout

SpecApp == Init /\ [][NextApp]_vars

(***************************************************************************)
(* The user panel's file import: handleFileImport, the worker it starts    *)
(* and the onmessage handler of that worker, which is a closure of its     *)
(* own import but reads workerRef.current when it ends.                    *)
(***************************************************************************)
\* the props App passes to UserPanel
userPanelProps ==
    {"data", "onAddSpeaker", "onUpdateSpeaker", "onDeleteSpeaker",
     "onBulkAddSpeakers", "currentUserEmail"}

report(kind, imported, skipped) ==
    [kind |-> kind, importedCount |-> imported, skippedCount |-> skipped]

\* handleFileImport: new Worker(...) into workerRef.current, a new allData
\* and a new onmessage handler, then postMessage(file); imports are
\* numbered in the order they start
HandleFileImport(k, file, limit) ==
    /\ ops < limit
    /\ rendered = "user" /\ panel.mounted = "yes"
    /\ panel.job[k].pc = "none"
    /\ \A j \in Imports : j < k => panel.job[j].pc # "none"
    /\ panel' = [panel EXCEPT !.workerRef = k,
                              !.job[k] = [NoJob EXCEPT !.pc = "parsing", !.file = file,
                                                       !.worker = "parsing"]]
    /\ ops' = ops + 1
    /\ UNCHANGED <<speakers, users, imp, del, cl, observed, pure, pwReq, exportReq, app>>

\* the worker has parsed the file to its end and posts complete, or the
\* parser has called the error callback and it posts error
WorkerPost(k, type) ==
    /\ panel.job[k].worker = "parsing"
    /\ panel' = [panel EXCEPT !.job[k].worker = "finished", !.job[k].msg = type]
    /\ UNCHANGED <<speakers, users, imp, del, cl, observed, pure, ops, pwReq, exportReq, app>>

\* the files a user picks in the panel: one with a valid row, one with
\* the columns in the other order, one without an email column
PanelFiles ==
    {<<<<cell(HEmail, EA), cell(HFirstName, X)>>>>,
     <<<<cell(HFirstName, Y), cell(HEmail, EB)>>>>,
     <<<<cell(HNotes, EA), cell(HFirstName, Y)>>>>}

\* the mapping and coercion of the complete handler for the files of
\* PanelFiles, computed once for each file and user
panelImports ==
    [f \in PanelFiles |->
        [who \in {U1, U2} |-> dataToImport("user", remappedData(f), who)]]

\* allData.map(remapRow) and the loop that fills dataToImport
mappedAndCoerced(file, who) ==
    IF file \in PanelFiles /\ who \in {U1, U2} THEN panelImports[file][who]
    ELSE dataToImport("user", remappedData(file), who)

\* the onmessage handler of import k receives the message: for error the
\* toast and terminate; for complete mapping and coercion, then either the
\* call of api.bulkAddSpeakerData or the no-valid-rows toast and terminate
Deliver(k) ==
    /\ panel.job[k].msg # "none"
    /\ \E dropped \in BOOLEAN :
          LET job == panel.job[k]
              data == mappedAndCoerced(job.file, panel.currentUserEmail)
              got == [panel EXCEPT !.job[k].msg = "none"]
          IN  panel' =
                IF job.msg = "error"
                THEN terminate([got EXCEPT !.job[k].pc = "done",
                                           !.job[k].report = report("parse", 0, 0)],
                               k, dropped)
                ELSE IF Len(data) > 0
                THEN [got EXCEPT !.job[k].pc = "sending", !.job[k].data = data]
                ELSE terminate([got EXCEPT !.job[k].pc = "done",
                                           !.job[k].report = report("novalid", 0, 0)],
                               k, dropped)
    /\ UNCHANGED <<speakers, users, imp, del, cl, observed, pure, ops, pwReq, exportReq, app>>

\* the POST /speakers/bulk of import k arrives at the server, on
\* connection k
BulkArrives(k) ==
    /\ panel.job[k].pc = "sending"
    /\ imp[k].pc = "idle"
    /\ Start(k, "api", panel.currentUserEmail, panel.job[k].data, FALSE, ops + 1, TRUE)

\* the response arrives and the handler goes on after the await: the
\* success toast and onDataImported(), a prop that is undefined unless App
\* passes it, so that the call throws inside the try and the catch shows
\* the failure toast; for a response that is not ok the catch as well;
\* then terminate
BulkReply(k) ==
    /\ panel.job[k].pc = "sending"
    /\ imp[k].pc = "done" /\ imp[k].entry = "api" /\ imp[k].responses > 0
    /\ \E dropped \in BOOLEAN :
          LET result == imp[k].resp
              shown == IF result.kind = "counts" /\ "onDataImported" \in userPanelProps
                       THEN report("complete", result.importedCount, result.skippedCount)
                       ELSE report("failed", 0, 0)
          IN  panel' = terminate([panel EXCEPT !.job[k].pc = "done",
                                               !.job[k].response = result,
                                               !.job[k].report = shown],
                                 k, dropped)
    /\ UNCHANGED <<speakers, users, imp, del, cl, observed, pure, ops, pwReq, exportReq, app>>

\* fetch rejects without a response (the connection is lost): the catch
\* shows the failure toast, then terminate
TransportFail(k) ==
    /\ panel.job[k].pc = "sending"
    /\ \E dropped \in BOOLEAN :
          panel' = terminate([panel EXCEPT !.job[k].pc = "done",
                                           !.job[k].report = report("failed", 0, 0)],
                             k, dropped)
    /\ UNCHANGED <<speakers, users, imp, del, cl, observed, pure, ops, pwReq, exportReq, app>>

(***************************************************************************)
(* The user panel with its server: one user logs in, starts file imports,  *)
(* also while an earlier one is under way, and may log out.                *)
(***************************************************************************)
NextPanel ==
    \/ users = {} /\ PostUser(U1, <<"p">>, FALSE, 1)
    \/ panel.mounted = "no" /\ HandleLogin(U1, <<"p">>, 2)
    \/ LoginReply
    \/ FetchReply
    \/ FetchFail
    \/ HandleLogout
    \/ \E k \in Imports, f \in PanelFiles : HandleFileImport(k, f, 4)
    \/ \E k \in Imports, type \in {"complete", "error"} : WorkerPost(k, type)
    \/ \E k \in Imports : Deliver(k)
    \/ \E k \in Imports : BulkArrives(k)
    \/ \E k \in Imports : InsertChunk(k)
    \/ \E k \in Imports : ChunkFail(k)
    \/ \E k \in Imports : Commit(k)
    \/ \E k \in Imports : Rollback(k)
    \/ \E k \in Imports : RollbackFail(k)
    \/ \E k \in Imports : BulkReply(k)
    \/ \E k \in Imports : TransportFail(k)

SpecPanel == Init /\ [][NextPanel]_vars

\* a step of import k that is no failure: its worker parses on, a posted
\* message is delivered, the server takes the next step of its request,
\* the response arrives
progress(k) ==
    \/ WorkerPost(k, "complete")
    \/ Deliver(k)
    \/ BulkArrives(k)
    \/ InsertChunk(k)
    \/ Commit(k)
    \/ Rollback(k)
    \/ RollbackFail(k)
    \/ BulkReply(k)

FairPanel == \A k \in Imports : WF_vars(progress(k))

SpecPanelFair == SpecPanel /\ FairPanel

(***************************************************************************)
(* Password changes, one request at a time: accounts are created, their    *)
(* owners change the password, an admin resets it.                         *)
(***************************************************************************)
PwWords == {<<"p">>, <<"q">>, <<"P">>, <<>>, Undefined}

NextPw ==
    \/ \E email \in {U1, U2}, password \in {<<>>, <<"p">>} :
          /\ pwReq.pc \in {"idle", "done"}
          /\ PostUser(email, password, FALSE, MaxUserOps)
    \/ \E password \in {<<>>, <<"q">>} :
          /\ pwReq.pc \in {"idle", "done"}
          /\ PutUser(U1, U1, password, MaxUserOps)
    \/ \E email \in {U1, U2, <<>>}, currentPassword \in PwWords, newPassword \in PwWords :
          ChangePasswordStart(email, currentPassword, newPassword, MaxUserOps)
    \/ ChangePasswordVerify
    \/ ChangePasswordUpdate
    \/ ChangePasswordFail

SpecPw == Init /\ [][NextPw]_vars

(***************************************************************************)
(* Properties.                                                             *)
(***************************************************************************)
hasEmail(s) == s.businessEmail \notin {Undefined, Null, <<>>}

hasNonSpace(v) == \E k \in 1..Len(v) : ~IsSpace(v[k])

\* the k-th smallest element of a set of indexes
kth(idx, k) == CHOOSE i \in idx : Cardinality({j \in idx : j <= i}) = k

\* C1: no two stored records have non-empty businessEmail values that are
\* equal when compared case-insensitively
C1_NoCaseInsensitiveDuplicates ==
    \A a \in speakers, b \in speakers :
        (a # b /\ hasEmail(a) /\ hasEmail(b))
            => toLowerCase(a.businessEmail) # toLowerCase(b.businessEmail)

\* C2: when a chunk insert of an import has failed, the table after the
\* request equals the table before it and the caller has received exactly
\* one response, an error
C2_FailedImportRollsBackAndAnswersOnce ==
    (imp[1].pc = "done" /\ imp[1].failure # "none")
        => /\ speakers = imp[1].before
           /\ imp[1].resp.kind = "error"
           /\ imp[1].responses = 1

\* the indexes of the records that carry the first occurrence of their
\* lower-cased email
firstIdx(body) ==
    {i \in 1..Len(body) :
        /\ hasEmail(body[i])
        /\ \A j \in 1..(i - 1) :
              ~(/\ hasEmail(body[j])
                /\ toLowerCase(body[j].businessEmail)
                     = toLowerCase(body[i].businessEmail))}

\* C3: the deduplicated batch is the subsequence of the submitted batch made
\* of the first record of each distinct lower-cased businessEmail, in the
\* original order
C3_DedupKeepsFirstOccurrences ==
    \A r \in Imports :
        LET body == imp[r].body
            unique == imp[r].unique
        IN  inTx(r) =>
              /\ Len(unique) = Cardinality(firstIdx(body))
              /\ \A k \in 1..Len(unique) : unique[k] = body[kth(firstIdx(body), k)]

\* an import is under way whose batch spells one email in two cases: the
\* first spelling is kept and the later one dropped
C3_Witness ==
    \E r \in Imports :
        /\ inTx(r)
        /\ Len(imp[r].unique) >= 2
        /\ \E i \in 1..Len(imp[r].body), j \in 1..Len(imp[r].body) :
              /\ i < j
              /\ imp[r].body[i].businessEmail # imp[r].body[j].businessEmail
              /\ toLowerCase(imp[r].body[i].businessEmail)
                   = toLowerCase(imp[r].body[j].businessEmail)
              /\ \E k \in 1..Len(imp[r].unique) : imp[r].unique[k] = imp[r].body[i]
              /\ \A k \in 1..Len(imp[r].unique) : imp[r].unique[k] # imp[r].body[j]

\* C4: a counts response has importedCount + skippedCount equal to the size
\* of the submitted batch before deduplication, importedCount being the
\* number of records the import added to the table; also on the early return
C4_CountsAddUpToSubmitted ==
    imp[1].resp.kind = "counts"
        => /\ imp[1].resp.skippedCount = Len(imp[1].body) - imp[1].resp.importedCount
           /\ imp[1].resp.importedCount = Cardinality(speakers \ imp[1].before)
           /\ imp[1].resp.importedCount >= 0
           /\ imp[1].resp.skippedCount >= 0

\* an import answered with counts after skipping both a duplicate inside
\* the batch and a record whose email was already stored
C4_Witness ==
    /\ imp[1].resp.kind = "counts"
    /\ imp[1].resp.importedCount > 0
    /\ Len(imp[1].unique) < Len(imp[1].body)
    /\ imp[1].resp.importedCount < Len(imp[1].unique)

\* the emails of the batch are present, pairwise different when lower-cased,
\* and none is the email of a stored record
distinctAbsent(body, table) ==
    /\ \A i \in 1..Len(body) : hasEmail(body[i])
    /\ \A i \in 1..Len(body), j \in 1..Len(body) :
          i # j => toLowerCase(body[i].businessEmail)
                     # toLowerCase(body[j].businessEmail)
    /\ \A i \in 1..Len(body), row \in table :
          row.businessEmail # body[i].businessEmail

isRepeat(me) ==
    /\ me.pc # "idle"
    /\ me.prev.entry = "api" /\ me.prev.body = me.body
    /\ me.prev.resp.kind = "counts"
    /\ me.prev.resp.importedCount = Len(me.body)
    /\ Len(me.body) > 0

\* C5: a batch of N records with distinct emails none of which is stored is
\* answered importedCount = N; the same batch imported again right away
\* raises no constraint error and is answered importedCount = 0,
\* skippedCount = N, with the table unchanged
C5_RepeatedImportIsIdempotent ==
    LET me == imp[1]
    IN  /\ (me.resp.kind = "counts" /\ distinctAbsent(me.body, me.before))
              => /\ me.resp.importedCount = Len(me.body)
                 /\ me.resp.skippedCount = 0
        /\ isRepeat(me)
              => /\ me.failure # "constraint"
                 /\ me.resp.kind = "counts"
                      => /\ me.resp.importedCount = 0
                         /\ me.resp.skippedCount = Len(me.body)
                         /\ speakers = me.before

\* a batch of more than one chunk was imported in full and then imported
\* again, and the second import has answered
C5_Witness ==
    /\ isRepeat(imp[1])
    /\ Len(imp[1].body) > batchSize
    /\ imp[1].resp.kind = "counts"
    /\ imp[1].resp.skippedCount = Len(imp[1].body)

\* C6: every record stored when an import arrived is still stored, with
\* all its fields, at every later point of the import
C6_ImportKeepsStoredRecords ==
    imp[1].pc # "idle" => imp[1].before \subseteq speakers

\* an import has committed whose batch had a record with the email of a
\* stored record and other field values
C6_Witness ==
    /\ imp[1].pc = "done" /\ imp[1].resp.kind = "counts"
    /\ \E row \in imp[1].before, k \in 1..Len(imp[1].body) :
          /\ row.businessEmail = imp[1].body[k].businessEmail
          /\ row.firstName # imp[1].body[k].firstName
          /\ row.createdBy # imp[1].body[k].createdBy
          /\ row \in speakers

\* C7: no two stored records have the same business email, and a single add
\* that reaches the table after its email was stored is rejected there: the
\* table is unchanged and the flow ends in an error
C7_RacingAddRejectedAtInsert ==
    /\ [](\A a \in speakers, b \in speakers :
             (a # b /\ a.businessEmail # Null) => a.businessEmail # b.businessEmail)
    /\ [][\A c \in Clients :
             (/\ cl[c].pc = "checked" /\ cl'[c].pc = "idle"
              /\ cl[c].editing = NoId
              /\ \E row \in speakers : row.businessEmail = cl[c].form.businessEmail)
                => (speakers' = speakers /\ cl'[c].result = "error")]_vars

\* both panels passed the check for one email, then one add was stored and
\* the other rejected
C7_Witness ==
    /\ cl[1].result = "added" /\ cl[2].result = "error"
    /\ cl[1].editing = NoId /\ cl[2].editing = NoId
    /\ ~cl[1].isDuplicate /\ ~cl[2].isDuplicate
    /\ cl[1].form.businessEmail = cl[2].form.businessEmail
    /\ Cardinality({row \in speakers :
                      row.businessEmail = cl[1].form.businessEmail}) = 1

\* C8: the rows an open import transaction has inserted are in no result of
\* a concurrent statement: not in the committed table, not in what
\* GET /speakers returns; COMMIT makes all of them visible in one step
C8_NoPartialImportVisible ==
    [][\A r \in Imports :
          /\ imp'[r].pc \in {"chunk", "commit", "catch"}
                => /\ imp'[r].rows \cap speakers' = {}
                   /\ observed' # observed => imp'[r].rows \cap observed'.rows = {}
          /\ (imp[r].pc = "commit" /\ imp'[r].pc = "done")
                => imp[r].rows \subseteq speakers']_vars

\* GET /speakers ran while an import of several chunks had inserted its
\* first chunk and not yet the last
C8_Witness ==
    \E r \in observed.during :
        /\ imp[r].pc = "chunk"
        /\ imp[r].i > 0
        /\ imp[r].rows # {}
        /\ observed.rows \cap imp[r].rows = {}

\* C9: the email check answers true exactly when a stored record other than
\* the excluded one has exactly that business email
C9_EmailCheckIsExactMatch ==
    [][\A c \in Clients :
          (cl[c].pc = "idle" /\ cl'[c] # cl[c])
             => (cl'[c].isDuplicate
                   <=> \E row \in speakers :
                          /\ row.businessEmail = cl'[c].form.businessEmail
                          /\ row.id # cl'[c].editing)]_vars

\* an import has committed a record and the check for its email, run
\* afterwards without an excluded id, answered true
C9_Witness ==
    \E r \in Imports, c \in Clients :
        /\ imp[r].pc = "done" /\ imp[r].resp.kind = "counts"
        /\ cl[c].isDuplicate /\ cl[c].editing = NoId
        /\ \E row \in imp[r].rows \cap speakers :
              row.businessEmail = cl[c].form.businessEmail

\* the rows of a parsed file whose mapped businessEmail is there and has a
\* character that is not whitespace
usableIdx(raw) ==
    LET m == remappedData(raw)
    IN  {i \in 1..Len(raw) :
            /\ "businessEmail" \in DOMAIN m[i]
            /\ hasNonSpace(m[i].businessEmail)}

\* C10: in the admin panel, the user panel and upload-csv, the batch handed
\* to deduplication holds exactly the rows with a usable businessEmail, in
\* order; no other row is stored, and the counts add up to their number
C10_UnusableRowsLeftOut ==
    LET me == imp[1]
        m == remappedData(me.raw)
        usable == usableIdx(me.raw)
    IN  me.entry \in {"admin", "user", "csv"}
          => /\ Len(me.body) = Cardinality(usable)
             /\ \A k \in 1..Len(me.body) :
                   me.body[k].businessEmail = m[kth(usable, k)].businessEmail
             /\ \A row \in speakers \ me.before :
                   \E i \in usable : row.businessEmail = m[i].businessEmail
             /\ me.resp.kind = "counts"
                   => me.resp.importedCount + me.resp.skippedCount
                        = Cardinality(usable)

\* a file with a whitespace-only email row and usable rows was imported
\* and answered with counts
C10_Witness ==
    LET me == imp[1]
        m == remappedData(me.raw)
    IN  /\ me.entry \in {"admin", "user", "csv"}
        /\ me.resp.kind = "counts"
        /\ me.resp.importedCount > 0
        /\ \E i \in 1..Len(me.raw) :
              /\ "businessEmail" \in DOMAIN m[i]
              /\ m[i].businessEmail # <<>>
              /\ i \notin usableIdx(me.raw)

\* C11: POST /speakers/bulk never inserts a record whose businessEmail is
\* missing or empty, and when every submitted record is dropped for that
\* reason the table is left as it was and no transaction is opened
C11_FalsyEmailsNeverInserted ==
    LET me == imp[1]
    IN  me.entry = "api"
          => /\ \A row \in (speakers \cup me.rows) \ me.before : hasEmail(row)
             /\ (Len(me.body) > 0 /\ \A k \in 1..Len(me.body) : ~hasEmail(me.body[k]))
                   => /\ me.pc = "done"
                      /\ speakers = me.before
                      /\ me.rows = {}
                      /\ me.released = 0

\* a batch with a record without email, one with an empty email and one
\* with an email was imported: only the last one was stored
C11_Witness ==
    LET me == imp[1]
    IN  /\ me.entry = "api" /\ me.pc = "done" /\ me.resp.kind = "counts"
        /\ \E k \in 1..Len(me.body) : me.body[k].businessEmail = Undefined
        /\ \E k \in 1..Len(me.body) : me.body[k].businessEmail = <<>>
        /\ me.resp.importedCount = 1
        /\ Cardinality(speakers \ me.before) = 1

headersOf(raw) == UNION {{raw[i][j].h : j \in 1..Len(raw[i])} : i \in 1..Len(raw)}

\* C13: an import whose file has rows but none with a usable business email
\* ends in the no-valid-rows error, which is not the parse error; no
\* transaction is opened, the table is unchanged, and the error names
\* headers of the file
C13_NoValidRowsErrorListsHeaders ==
    LET me == imp[1]
    IN  (/\ me.entry \in {"admin", "user", "csv"} /\ me.pc = "done"
         /\ Len(me.raw) > 0 /\ usableIdx(me.raw) = {}
         /\ me.resp.kind # "parse")
          => /\ me.resp.kind = "novalid"
             /\ speakers = me.before
             /\ me.rows = {} /\ me.released = 0
             /\ Len(me.resp.headers) > 0
             /\ \A i \in 1..Len(me.resp.headers) :
                   me.resp.headers[i] \in headersOf(me.raw)

\* C14: when the parser has reported an error for the file, the import ends
\* in an error message and never in counts; it opens no transaction and
\* stores no row
C14_MalformedCsvImportsNothing ==
    LET me == imp[1]
    IN  (me.entry \in {"admin", "user", "csv"} /\ me.errors)
          => /\ ~inTx(1)
             /\ me.rows = {}
             /\ me.pc = "done"
                   => /\ me.resp.kind \in {"parse", "empty", "novalid"}
                      /\ speakers = me.before

\* the creator an entry point gives to the record of a mapped row
creatorOf(entry, row, who) ==
    IF entry = "admin" /\ Get(row, "createdBy") \notin {Undefined, Null, <<>>}
    THEN Get(row, "createdBy")
    ELSE who

\* C17: every record an import hands over and every record it stores has
\* the createdBy of its entry point: the uploading user's email in the user
\* panel (and the request's createdBy in upload-csv) whatever the row says,
\* and in the admin panel the row's createdBy when it is non-empty and the
\* admin's email otherwise
C17_CreatedBySetByEntryPoint ==
    LET me == imp[1]
        m == remappedData(me.raw)
        usable == usableIdx(me.raw)
    IN  (me.entry \in {"admin", "user", "csv"} /\ me.resp.kind # "parse")
          => /\ \A k \in 1..Len(me.body) :
                   me.body[k].createdBy = creatorOf(me.entry, m[kth(usable, k)], me.who)
             /\ \A row \in (speakers \cup me.rows) \ me.before :
                   \E i \in usable :
                      /\ row.businessEmail = m[i].businessEmail
                      /\ \A j \in usable :
                            toLowerCase(m[j].businessEmail)
                              = toLowerCase(m[i].businessEmail) => i <= j
                      /\ row.createdBy = creatorOf(me.entry, m[i], me.who)

\* a user-panel import stored, under the uploading user's email, a row
\* whose createdBy column named somebody else
C17_Witness ==
    LET me == imp[1]
        m == remappedData(me.raw)
    IN  /\ me.entry = "user" /\ me.pc = "done" /\ me.resp.kind = "counts"
        /\ \E i \in usableIdx(me.raw), row \in speakers \ me.before :
              /\ Get(m[i], "createdBy") = U2
              /\ row.businessEmail = m[i].businessEmail
              /\ row.createdBy = me.who
              /\ me.who # U2

\* C15: the records a bulk import or a single add stores, uncommitted ones
\* included, have pairwise different ids, and none has the id its input
\* record carried: the id is the one generated in the handler
C15_FreshUniqueIds ==
    LET stored == speakers \cup imp[1].rows
    IN  /\ \A a \in stored, b \in stored : a # b => a.id # b.id
        /\ \A row \in stored : row.id \in Ids /\ row.id # GivenId

\* a single add and then a bulk import of more than one chunk, all of
\* records carrying the same id, are stored under different ids
C15_Witness ==
    /\ imp[1].entry = "api" /\ imp[1].pc = "done"
    /\ imp[1].resp.importedCount > batchSize
    /\ imp[1].before # {}
    /\ \A k \in 1..Len(imp[1].body) : imp[1].body[k].id = GivenId
    /\ Cardinality({row.id : row \in speakers}) = Cardinality(speakers)
    /\ Cardinality(speakers) > imp[1].resp.importedCount

\* C16: no step changes the id or the createdBy of a stored record, and a
\* step that changes a field of a record leaves every other record as it
\* was and adds and removes none
C16_UpdateKeepsIdAndCreatedBy ==
    [][\A row \in speakers, new \in speakers' :
          (row.id = new.id /\ row # new)
             => /\ new.createdBy = row.createdBy
                /\ speakers' \ {new} = speakers \ {row}]_vars

\* PUT /speakers/:id with a body naming another id and another creator
\* changed the fields of one of two stored records and nothing else
C16_Witness ==
    \E row \in speakers, other \in speakers :
        /\ row.businessEmail = EB /\ row.firstName = Y
        /\ row.createdBy # Admin /\ row.id # GivenId
        /\ other # row /\ other.firstName = X

\* the canonical field names of the alias table
Canonical == {aliases[i][2] : i \in 1..Len(aliases)}

\* the canonical name the alias table gives a header, computed from the
\* table by lower-casing and removing whitespace
canonicalOf(h) ==
    LET n == removeWhitespace(toLowerCase(h))
        hits == {i \in 1..Len(aliases) : removeWhitespace(toLowerCase(aliases[i][1])) = n}
    IN  IF hits = {} THEN "none"
        ELSE aliases[CHOOSE i \in hits : \A j \in hits : j <= i][2]

\* C18: the mapped row has canonical field names only; each comes from a
\* header of the alias table and has the value of the last such header of
\* the row, empty or not; headers that are not in the table add nothing
C18_MapperKeepsCanonicalLastWins ==
    pure.fn = "remap"
      => LET raw == pure.arg
             out == pure.out
         IN  /\ DOMAIN out \subseteq Canonical
             /\ \A key \in DOMAIN out :
                   \E j \in 1..Len(raw) :
                      /\ canonicalOf(raw[j].h) = key
                      /\ out[key] = raw[j].v
                      /\ \A k \in (j + 1)..Len(raw) : canonicalOf(raw[k].h) # key
             /\ \A j \in 1..Len(raw) :
                   canonicalOf(raw[j].h) # "none" => canonicalOf(raw[j].h) \in DOMAIN out

\* the words that make a boolean field true
TrueWords == {<<"t", "r", "u", "e">>, <<"1">>, <<"y", "e", "s">>}

BoolFields ==
    {"isEmailValid", "isLinkedInValid", "isWebsiteValid", "isCeo", "isSpeaker", "isAuthor"}

\* C19: each of the six boolean fields is true exactly when the mapped row
\* has the field and its value, lower-cased, is "true", "1" or "yes"
C19_BooleanFieldsFromTrueWords ==
    pure.fn = "flags"
      => LET m == remapRow(pure.arg, <<>>)
         IN  /\ DOMAIN pure.out = BoolFields
             /\ \A f \in BoolFields :
                   pure.out[f] <=> (f \in DOMAIN m /\ toLowerCase(m[f]) \in TrueWords)

\* a row with "Yes" under one boolean header and "0" under another gave one
\* true and five false fields
C19_Witness ==
    /\ pure.fn = "flags"
    /\ \E j \in 1..Len(pure.arg) :
          pure.arg[j] = cell(HIsCeo, <<"Y", "e", "s">>)
    /\ \E j \in 1..Len(pure.arg) :
          pure.arg[j] = cell(HEmailValid, <<"0">>)
    /\ pure.out.isCeo
    /\ \A f \in BoolFields \ {"isCeo"} : ~pure.out[f]

caseReversible(h) == \A i \in 1..Len(h) : h[i] \notin {SharpS, DotlessI}

RECURSIVE flatten(_)
flatten(ss) == IF ss = <<>> THEN <<>> ELSE Head(ss) \o flatten(Tail(ss))

ceilDiv(n, d) == (n + d - 1) \div d

\* C21: the deduplicated batch of n records is inserted as ceil(n/batchSize)
\* consecutive chunks inside one transaction: every chunk has at most
\* batchSize records, every chunk but the last exactly batchSize, the chunks
\* put end to end are the batch (each record in one chunk, in batch order),
\* and nothing of them is committed before the last chunk is in
C21_ChunksPartitionBatchInOrder ==
    LET me == imp[1]
        n == Len(me.unique)
        ch == me.chunks
        sofar == flatten(ch)
    IN  /\ \A k \in 1..Len(ch) : Len(ch[k]) >= 1 /\ Len(ch[k]) <= batchSize
        /\ \A k \in 1..(Len(ch) - 1) : Len(ch[k]) = batchSize
        /\ Len(sofar) <= n /\ sofar = SubSeq(me.unique, 1, Len(sofar))
        /\ me.pc \in {"chunk", "commit"}
              => /\ speakers = me.before
                 /\ me.responses = 0 /\ me.released = 0
        /\ (me.pc = "commit" \/ (me.pc = "done" /\ me.resp.kind = "counts" /\ n > 0))
              => /\ Len(ch) = ceilDiv(n, batchSize)
                 /\ sofar = me.unique
        /\ (me.pc = "done" /\ me.resp.kind = "counts" /\ n > 0) => me.released = 1

\* an import whose deduplicated batch is longer than one chunk has
\* committed: its last chunk was a short one
C21_Witness ==
    LET me == imp[1]
    IN  /\ me.pc = "done" /\ me.resp.kind = "counts"
        /\ Len(me.unique) > batchSize
        /\ Len(me.chunks) >= 2
        /\ Len(me.chunks[Len(me.chunks)]) < batchSize

\* C22: PUT /users/change-password is rejected, with the accounts as they
\* were, when a field is missing or the supplied current password is not
\* the stored one of that account; when it is, the account's password
\* becomes the new one and every other account stays as it was; nothing
\* changes before the request ends nor when one of its queries fails
C22_PasswordChangeNeedsCurrentPassword ==
    [][LET r == pwReq'
           complete == Truthy(r.email) /\ Truthy(r.currentPassword) /\ Truthy(r.newPassword)
           proof == \E u \in r.before :
                       u.email = r.email /\ u.password = r.currentPassword
       IN  /\ r.pc \in {"verify", "update"} => users' = r.before
           /\ (pwReq.pc # "done" /\ r.pc = "done")
                 => IF r.failure # "none"
                    THEN r.status = 500 /\ users' = r.before
                    ELSE IF complete /\ proof
                    THEN /\ r.status = 200
                         /\ \A u \in r.before :
                               IF u.email = r.email
                               THEN [u EXCEPT !.password = r.newPassword] \in users'
                               ELSE u \in users'
                         /\ Cardinality(users') = Cardinality(r.before)
                    ELSE /\ r.status \in {400, 401}
                         /\ users' = r.before]_vars

\* of two accounts with the same password one has changed it with proof
\* and the other has kept its own
C22_Witness ==
    /\ pwReq.pc = "done" /\ pwReq.status = 200
    /\ pwReq.currentPassword # pwReq.newPassword
    /\ \E u \in users, v \in users :
          /\ u.email = pwReq.email /\ u.password = pwReq.newPassword
          /\ v.email # pwReq.email /\ v.password = pwReq.currentPassword
          /\ v \in pwReq.before

\* the positions of the deduplicated batch whose email no record of the
\* table has
freshIdx(unique, table) ==
    {k \in 1..Len(unique) :
        \A row \in table : row.businessEmail # unique[k].businessEmail}

\* C23: after an import answered with counts, the table is the table of
\* before plus exactly importedCount new records: one for each email of the
\* deduplicated batch that no stored record had, with the fields of the
\* batch's record, and no record was removed or changed
C23_ImportAddsExactlyTheFreshEmails ==
    LET me == imp[1]
        new == speakers \ me.before
        fresh == freshIdx(me.unique, me.before)
    IN  (me.pc = "done" /\ me.resp.kind = "counts")
          => /\ me.before \subseteq speakers
             /\ Cardinality(new) = me.resp.importedCount
             /\ Cardinality(fresh) = me.resp.importedCount
             /\ \A k \in fresh :
                   Cardinality({row \in new :
                       /\ row.businessEmail = me.unique[k].businessEmail
                       /\ row.firstName = toSql(me.unique[k].firstName)
                       /\ row.createdBy = toSql(me.unique[k].createdBy)}) = 1
             /\ \A row \in new :
                   \E k \in fresh : row.businessEmail = me.unique[k].businessEmail

\* an import of more than one chunk has committed; its batch had the email
\* of a stored record, which was skipped, and emails of its own
C23_Witness ==
    LET me == imp[1]
    IN  /\ me.pc = "done" /\ me.resp.kind = "counts"
        /\ Len(me.unique) > batchSize
        /\ me.resp.importedCount > 1
        /\ me.resp.importedCount < Len(me.unique)
        /\ \E row \in me.before, k \in 1..Len(me.unique) :
              /\ row.businessEmail = me.unique[k].businessEmail
              /\ k \notin freshIdx(me.unique, me.before)

emailsOf(rows) == {row.businessEmail : row \in rows}

\* the emails the deduplicated batches of the two imports have in common
sharedEmails ==
    {imp[1].unique[k].businessEmail : k \in 1..Len(imp[1].unique)}
    \cap {imp[2].unique[k].businessEmail : k \in 1..Len(imp[2].unique)}

\* C24: of two imports of which one started while the transaction of the
\* other was open, no email is inserted by both; when both have answered
\* with counts the table has exactly one record for each email the two
\* batches share, and the two importedCount values add up to the number of
\* emails that were newly stored
C24_ConcurrentImportsCountEachEmailOnce ==
    \A r \in Imports, q \in Imports :
        (r # q /\ q \in imp[r].during)
          => /\ emailsOf(imp[r].rows) \cap emailsOf(imp[q].rows) = {}
             /\ (/\ imp[r].pc = "done" /\ imp[r].resp.kind = "counts"
                 /\ imp[q].pc = "done" /\ imp[q].resp.kind = "counts")
                   => /\ \A e \in sharedEmails :
                            Cardinality({row \in speakers : row.businessEmail = e}) = 1
                      /\ imp[r].resp.importedCount + imp[q].resp.importedCount
                            = Cardinality(emailsOf(speakers) \ emailsOf(imp[q].before))
                      /\ Cardinality(speakers \ imp[q].before)
                            = Cardinality(emailsOf(speakers) \ emailsOf(imp[q].before))
                      /\ imp[q].before \subseteq speakers

\* two overlapping imports sharing two emails have both committed; each
\* stored records, and the shared emails were stored by one of them only
C24_Witness ==
    \E r \in Imports, q \in Imports :
        /\ r # q /\ q \in imp[r].during
        /\ imp[r].pc = "done" /\ imp[r].resp.kind = "counts"
        /\ imp[q].pc = "done" /\ imp[q].resp.kind = "counts"
        /\ Cardinality(sharedEmails) >= 2
        /\ imp[r].resp.importedCount > 0
        /\ imp[q].resp.importedCount > 0
        /\ sharedEmails \subseteq emailsOf(imp[r].rows) \cup emailsOf(imp[q].rows)

\* C25: the createdBy of every stored record is the email of an existing
\* account
C25_EveryRecordHasAnAccount ==
    \A row \in speakers : \E u \in users : u.email = row.createdBy

\* C28: once no fetch is pending, the record list held for a logged-in user
\* who is no admin has only records of that user, and the list is empty
\* whenever no user is logged in
C28_ListBelongsToLoggedInUser ==
    app.call.pc = "idle"
      => /\ app.currentUser = NoUser => app.speakerDataList = {}
         /\ (app.currentUser # NoUser /\ ~app.currentUser.isAdmin)
               => \A row \in app.speakerDataList : row.createdBy = app.currentUser.email

\* C26: a worker of the user panel is terminated only by the handler of its
\* own import or by the unmount cleanup, and every import that was started
\* reaches a final report unless the panel unmounts
C26_EveryPanelImportReports ==
    /\ [](\A k \in Imports : panel.job[k].terminatedBy \in {0, k, -1})
    /\ \A k \in Imports :
          (panel.job[k].pc # "none")
             ~> (panel.job[k].report.kind # "none" \/ panel.mounted = "gone")

\* the records the request of import k has stored
storedBy(k) == imp[k].rows \cap speakers

\* C27: when the bulk request of a user-panel import has succeeded, the
\* report shown last is the success report with the counts of the response,
\* and the record list of App holds the records the import has stored
C27_SuccessIsReportedAndListRefreshed ==
    \A k \in Imports :
        (/\ panel.job[k].pc = "done"
         /\ panel.job[k].response.kind = "counts"
         /\ panel.mounted = "yes")
          => /\ panel.job[k].report
                  = report("complete", panel.job[k].response.importedCount,
                           panel.job[k].response.skippedCount)
             /\ storedBy(k) \subseteq app.speakerDataList

\* pool.connect() was reached: the request got past its early returns
acquiredClient(me) == Len(me.unique) > 0

\* C29: a request to /speakers/bulk or /speakers/upload-csv never sends a
\* second response and never releases a second time, and once it has ended
\* it has sent exactly one response and has released the client it
\* acquired exactly once, whether it committed, rolled back after a failed
\* insert, or its ROLLBACK failed
C29_BulkRequestAnswersOnceReleasesOnce ==
    \A r \in Imports :
        imp[r].entry \in {"api", "csv"}
          => /\ imp[r].responses <= 1
             /\ imp[r].released <= 1
             /\ imp[r].pc = "done"
                   => /\ imp[r].responses = 1
                      /\ imp[r].released = IF acquiredClient(imp[r]) THEN 1 ELSE 0

(***************************************************************************)
(* CSV export: the three GET handlers that stream a cursor, one request    *)
(* at a time, over tables that single adds and new accounts fill.          *)
(***************************************************************************)
\* the rows the query of the route selects
exportRows(route, email) ==
    IF route = "interns" THEN {u \in users : ~u.isAdmin}
    ELSE IF route = "speakers" THEN speakers
    ELSE {row \in speakers : row.createdBy = email}

\* pool.connect(), client.query(new Cursor(query)), setHeader twice, for
\* the interns export res.write of the header line, then readNextBatch()
ExportStart(route, email) ==
    /\ exportReq.pc \in {"idle", "done"}
    /\ exportReq.n < MaxExports
    /\ exportReq' = [IdleExport EXCEPT !.pc = "reading", !.n = exportReq.n + 1,
                                       !.route = route, !.email = email,
                                       !.headersSent = (route = "interns"),
                                       !.isFirstBatch = (route # "interns")]
    /\ UNCHANGED <<speakers, users, imp, del, cl, observed, pure, ops, pwReq, panel, app>>

\* client.query(new Cursor(query)) throws: the catch of the handler, with
\* no header written yet
ExportStartFail(route, email) ==
    /\ exportReq.pc \in {"idle", "done"}
    /\ exportReq.n < MaxExports
    /\ exportReq' = [IdleExport EXCEPT !.pc = "done", !.n = exportReq.n + 1,
                                       !.route = route, !.email = email,
                                       !.headersSent = TRUE, !.status = 500,
                                       !.ended = 1, !.released = 1]
    /\ UNCHANGED <<speakers, users, imp, del, cl, observed, pure, ops, pwReq, panel, app>>

\* the callback of cursor.read(100) without err: res.end() and release for
\* no rows, otherwise the header line on the first batch, the rows, and
\* readNextBatch as callback of res.write
ExportRead ==
    /\ exportReq.pc = "reading"
    /\ LET e == exportReq
           avail == IF e.left = -1 THEN Cardinality(exportRows(e.route, e.email))
                    ELSE e.left
           rowsLength == IF avail < readSize THEN avail ELSE readSize
       IN  exportReq' =
             IF rowsLength = 0
             THEN [e EXCEPT !.pc = "done", !.left = 0, !.headersSent = TRUE,
                            !.status = 200,
                            !.ended = @ + 1, !.released = @ + 1]
             ELSE [e EXCEPT !.left = avail - rowsLength, !.headersSent = TRUE,
                            !.isFirstBatch = FALSE, !.written = @ + 1]
    /\ UNCHANGED <<speakers, users, imp, del, cl, observed, pure, ops, pwReq, panel, app>>

\* the callback of cursor.read(100) with err: the 500 response only if
\* !res.headersSent, then client.release() and return
ExportReadFail ==
    /\ exportReq.pc = "reading"
    /\ exportReq' =
          IF ~exportReq.headersSent
          THEN [exportReq EXCEPT !.pc = "done", !.headersSent = TRUE, !.status = 500,
                                 !.ended = @ + 1, !.released = @ + 1]
          ELSE [exportReq EXCEPT !.pc = "done", !.released = @ + 1]
    /\ UNCHANGED <<speakers, users, imp, del, cl, observed, pure, ops, pwReq, panel, app>>

NextExport ==
    \/ \E email \in {U1, U2} : PostUser(email, <<"p">>, FALSE, 3)
    \/ PostUser(Admin, <<"p">>, TRUE, 3)
    \/ \E e \in {EA, EB, EC}, u \in {U1, U2} : PostSpeaker(rec(e, X, u), 3)
    \/ \E route \in {"interns", "speakers", "user"}, email \in {U1, U2} :
          ExportStart(route, email)
    \/ \E route \in {"interns", "speakers", "user"}, email \in {U1, U2} :
          ExportStartFail(route, email)
    \/ ExportRead
    \/ ExportReadFail

SpecExport == Init /\ [][NextExport]_vars

\* the cursor calls the callback of every read; that it calls it without
\* err is not assumed once and for all but for the next read
FairExport == WF_vars(ExportRead)

SpecExportFair == SpecExport /\ FairExport

\* C30: an export request never ends its response twice and never releases
\* twice, and every export request that was started comes to have ended
\* its response and released its client, when the cursor is exhausted and
\* when a read fails, also after the header line or a batch was written
C30_ExportEndsAndReleasesOnce ==
    /\ [](exportReq.ended <= 1 /\ exportReq.released <= 1)
    /\ \A n \in 1..MaxExports :
          (exportReq.n = n)
             ~> (exportReq.n = n /\ exportReq.ended = 1 /\ exportReq.released = 1)

====
